---- MODULE Spec2Model ----
(***************************************************************************)
(* CompanyAnalyzer front end: the App shell (navigation, alerts) and the   *)
(* report detail view with its faceted filters, search box and chart       *)
(* summary.  Strings that the code inspects character by character         *)
(* (company names, search terms) are sequences of one-character strings;   *)
(* labels that are only compared for equality are plain strings.           *)
(***************************************************************************)
EXTENDS Integers, Sequences, FiniteSets, TLC

\* ------------------------------------------------------------------ bounds
MaxRecords == 3      \* longest record collection a /report response carries
MaxFilters == 2      \* longest active filter list explored
MaxInflight == 1     \* most /report requests awaiting their response
MaxTimers == 1       \* most pending alert-expiry timeouts
NumReports == 1      \* report ids listed as Completed in the history
MaxSeconds == 125    \* longest analysis duration of a report, in seconds
MaxLoads == 4        \* most /report requests one run of the Chart.js view issues
MaxEntries == 2      \* most reports the server lists in the history
MaxLines == 1        \* most lines of the firms textarea
MaxAlerts == 3       \* most alerts shown in one run of the alert clock
MaxTime == 6         \* last tick of the alert clock

\* --------------------------------------------------------- program constants
TopN == 10           \* .slice(0, 10) of the nation ranking

\* ------------------------------------------------------------ JS values
\* The value of a property that the record does not carry.
Undefined == "<undefined>"

\* JS truthiness of a string-or-undefined value.
Truthy(v) == v # Undefined /\ v # ""

\* a || b on string-or-undefined values.
OrElse(a, b) == IF Truthy(a) THEN a ELSE b

\* String.prototype.toLowerCase on one character.
LowerChar(c) ==
    CASE c = "A" -> "a" [] c = "B" -> "b" [] c = "C" -> "c" [] c = "O" -> "o"
      [] OTHER -> c

toLowerCase(s) == [i \in 1..Len(s) |-> LowerChar(s[i])]

\* Variant: t is looked for at the start of s only.
includesAtStart(s, t) == Len(t) <= Len(s) /\ SubSeq(s, 1, Len(t)) = t

\* String.prototype.includes: t occurs in s as a contiguous substring.
includes(s, t) ==
    \E i \in 0..(Len(s) - Len(t)) : SubSeq(s, i + 1, i + Len(t)) = t

Range(s) == {s[i] : i \in DOMAIN s}

\* ------------------------------------------------------------ record data
Company(name, cat, nat) ==
    [company_name |-> name, ownership_category |-> cat, nation |-> nat]

PoolSeq ==
    << Company(<<"A", "b">>, "Private", "USA"),
       Company(<<"B", "a">>, "PE-Owned", "USA"),
       Company(<<"b", "A", "b">>, "Private", "UK"),
       Company(<<"a">>, Undefined, "Unknown"),
       Company(<<"B">>, "Public (PE-Backed)", "") >>

RecordPool == Range(PoolSeq)

\* Record collections of a report: company names are unique within a report.
ReportSet ==
    { s \in UNION { [1..n -> RecordPool] : n \in 0..MaxRecords } :
        \A i, j \in DOMAIN s : i # j => s[i].company_name # s[j].company_name }

SearchTerms == { <<>>, <<"a">>, <<"A", "B">> }

\* The body of the /report/{id} response: what the server stores for id.
ServerReport(id) ==
    [i \in 1..(IF MaxRecords < Len(PoolSeq) THEN MaxRecords ELSE Len(PoolSeq)) |->
        PoolSeq[((id + i - 2) % Len(PoolSeq)) + 1]]

\* ------------------------------------------------- view derivation (useMemo)
\* acc[key] = (acc[key] || 0) + 1 on an object whose own keys keep insertion
\* order: the object is the sequence of its entries.
Increment(acc, key) ==
    IF \E i \in DOMAIN acc : acc[i].name = key
    THEN [i \in DOMAIN acc |->
            IF acc[i].name = key
            THEN [acc[i] EXCEPT !.count = @ + 1] ELSE acc[i]]
    ELSE Append(acc, [name |-> key, count |-> 1])

\* Variant: a record without a category is not counted.
RECURSIVE categoryDistributionSkipsAbsent(_, _)
categoryDistributionSkipsAbsent(companies, n) ==
    IF n = 0 THEN <<>>
    ELSE IF Truthy(companies[n].ownership_category)
         THEN Increment(categoryDistributionSkipsAbsent(companies, n - 1),
                        companies[n].ownership_category)
         ELSE categoryDistributionSkipsAbsent(companies, n - 1)

\* companies.reduce over the first n records, keyed by ownership_category.
RECURSIVE categoryDistribution(_, _)
categoryDistribution(companies, n) ==
    IF n = 0 THEN <<>>
    ELSE Increment(categoryDistribution(companies, n - 1),
                   OrElse(companies[n].ownership_category, "Unknown"))

\* categoryDistribution[label] || 0
CountOf(dist, label) ==
    IF \E i \in DOMAIN dist : dist[i].name = label
    THEN (CHOOSE e \in Range(dist) : e.name = label).count
    ELSE 0

\* Variant: only the PE-Owned label is counted.
peRelatedCountOwnedOnly(dist) == CountOf(dist, "PE-Owned")

peRelatedCount(dist) ==
    CountOf(dist, "PE-Owned") + CountOf(dist, "Public (PE-Backed)")

\* Variant: "Unknown" is counted like any other nation.
RECURSIVE nationsKeepUnknown(_, _)
nationsKeepUnknown(companies, n) ==
    IF n = 0 THEN <<>>
    ELSE IF Truthy(companies[n].nation)
         THEN Increment(nationsKeepUnknown(companies, n - 1), companies[n].nation)
         ELSE nationsKeepUnknown(companies, n - 1)

\* companies.reduce over the first n records, keyed by nation.
RECURSIVE nations(_, _)
nations(companies, n) ==
    IF n = 0 THEN <<>>
    ELSE IF Truthy(companies[n].nation) /\ companies[n].nation # "Unknown"
         THEN Increment(nations(companies, n - 1), companies[n].nation)
         ELSE nations(companies, n - 1)

\* Variant: an entry goes before the entries of equal count.
InsertByCountBeforeTies(sorted, e) ==
    LET k == Cardinality({i \in DOMAIN sorted : sorted[i].count > e.count})
    IN  SubSeq(sorted, 1, k) \o <<e>> \o SubSeq(sorted, k + 1, Len(sorted))

\* Array.prototype.sort((a, b) => b.count - a.count): stable, so an entry
\* goes after every entry whose count is not smaller.
InsertByCount(sorted, e) ==
    LET k == Cardinality({i \in DOMAIN sorted : sorted[i].count >= e.count})
    IN  SubSeq(sorted, 1, k) \o <<e>> \o SubSeq(sorted, k + 1, Len(sorted))

RECURSIVE sortByCountDesc(_)
sortByCountDesc(s) ==
    IF s = <<>> THEN <<>>
    ELSE InsertByCount(sortByCountDesc(SubSeq(s, 1, Len(s) - 1)), s[Len(s)])

\* Array.prototype.slice(0, n)
sliceTo(s, n) == SubSeq(s, 1, IF Len(s) < n THEN Len(s) ELSE n)

\* The empty object returned while there is no report data.
EmptySummary ==
    [isEmptyObject |-> TRUE, total |-> 0, peRelatedCount |-> 0,
     categoryData |-> <<>>, nationData |-> <<>>]

summaryData(companies) ==
    LET dist == categoryDistribution(companies, Len(companies))
    IN  [isEmptyObject |-> FALSE,
         total |-> Len(companies),
         peRelatedCount |-> peRelatedCount(dist),
         categoryData |->
            [i \in DOMAIN dist |-> [name |-> dist[i].name, value |-> dist[i].count]],
         nationData |->
            sliceTo(sortByCountDesc(nations(companies, Len(companies))), TopN)]

\* Variant: the search compares the name and the term as typed.
searchFilterCaseSensitive(companies, term) ==
    IF term # <<>>
    THEN SelectSeq(companies, LAMBDA c : includes(c.company_name, term))
    ELSE companies

\* if (searchTerm) processedCompanies = processedCompanies.filter(...)
searchFilter(companies, term) ==
    IF term # <<>>
    THEN SelectSeq(companies,
            LAMBDA c : includes(toLowerCase(c.company_name), toLowerCase(term)))
    ELSE companies

\* Variant: every filter is compared with the ownership category.
filterByCategoryOnly(companies, filter) ==
    SelectSeq(companies, LAMBDA c : c.ownership_category = filter.value)

\* One pass of activeFilters.forEach: keep the records whose field named by
\* filter.type is strictly equal to filter.value.
filterBy(companies, filter) ==
    SelectSeq(companies, LAMBDA c : c[filter.type] = filter.value)

\* Variant: each pass filters the whole collection, so only the last filter counts.
applyFiltersLastOnly(companies, filters) ==
    IF filters = <<>> THEN companies
    ELSE SelectSeq(companies,
            LAMBDA c : c[filters[Len(filters)].type] = filters[Len(filters)].value)

RECURSIVE applyFilters(_, _)
applyFilters(companies, filters) ==
    IF filters = <<>> THEN companies
    ELSE applyFilters(filterBy(companies, Head(filters)), Tail(filters))

processedCompanies(companies, term, filters) ==
    applyFilters(searchFilter(companies, term), filters)

\* Variant: the summary is computed from the filtered list.
deriveSummaryFromVisible(report, term, filters) ==
    IF report = <<>>
    THEN [summary |-> EmptySummary, filteredCompanies |-> <<>>]
    ELSE [summary |-> summaryData(processedCompanies(report[1].data, term, filters)),
          filteredCompanies |-> processedCompanies(report[1].data, term, filters)]

\* The useMemo body.  report is <<>> for null, else <<[data |-> records]>>.
derive(report, term, filters) ==
    IF report = <<>>
    THEN [summary |-> EmptySummary, filteredCompanies |-> <<>>]
    ELSE [summary |-> summaryData(report[1].data),
          filteredCompanies |-> processedCompanies(report[1].data, term, filters)]

\* ------------------------------------------------------- filter mutations
Filter(type, value) == [type |-> type, value |-> value]

\* Variant: no membership test before appending.
addFilterNoDedup(closure, current, type, value) ==
    Append(closure, [type |-> type, value |-> value])

\* addFilter as it acts on the state: closure is the activeFilters value the
\* handler closed over at the last render, current the state it replaces.
addFilter(closure, current, type, value) ==
    IF ~\E i \in DOMAIN closure :
            closure[i].type = type /\ closure[i].value = value
    THEN Append(closure, Filter(type, value))
    ELSE current

\* Variant: every filter of the same type is removed.
removeFilterByType(closure, filterToRemove) ==
    SelectSeq(closure, LAMBDA f : ~(f.type = filterToRemove.type))

\* Variant: the predicate is not negated, so only the matching entry is kept.
removeFilterKeepsMatch(closure, filterToRemove) ==
    SelectSeq(closure,
        LAMBDA f : f.type = filterToRemove.type /\ f.value = filterToRemove.value)

removeFilter(closure, filterToRemove) ==
    SelectSeq(closure,
        LAMBDA f : ~(f.type = filterToRemove.type /\ f.value = filterToRemove.value))

\* ------------------------------------------------------------------ state
VARIABLES
    activeSection,    \* App: section shown
    currentReportId,  \* App: report id handed to the report view, NoId for null
    message,          \* App: the alert shown, [type, text]; text "" shows none
    timers,           \* App: setTimeout callbacks of showAlert not yet run
    reportData,       \* report view: <<>> for null, else <<[data |-> records]>>
    isLoading,        \* report view
    searchTerm,       \* report view
    activeFilters,    \* report view: sequence of [type, value]
    rendered,         \* activeFilters as bound in the handlers of the last render
    inflight,         \* /report requests awaiting their response: [id, live]
    lastOp,           \* history: the handler that ran last, with its arguments
    seqFilters,       \* history: the filter list had every handler seen its predecessor's state
    fn                \* harness applying the filter operations to drawn inputs

vars == <<activeSection, currentReportId, message, timers, reportData, isLoading,
          searchTerm, activeFilters, rendered, inflight, lastOp, seqFilters, fn>>

appVars == <<activeSection, currentReportId, message, timers>>
viewVars == <<reportData, isLoading, searchTerm, activeFilters, rendered,
              inflight, seqFilters>>

NoId == 0
ReportIds == 1..NumReports
NavItems == {"upload", "history", "settings"}
NoMessage == [type |-> "", text |-> ""]
Op(op, type, value) == [op |-> op, type |-> type, value |-> value]
FnIdle == [pc |-> "idle"]

\* The report view is rendered by App only in this state.
Mounted == activeSection = "reportDetail" /\ currentReportId # NoId

\* The view renders its charts, chips and search box (neither the spinner nor
\* "Report not found.").
ViewShown == Mounted /\ ~isLoading /\ reportData # <<>>

summary == derive(reportData, searchTerm, activeFilters).summary
filteredCompanies == derive(reportData, searchTerm, activeFilters).filteredCompanies

RemoveAt(s, i) == SubSeq(s, 1, i - 1) \o SubSeq(s, i + 1, Len(s))

\* ---------------------------------------------------------- App operations
showAlert(type, text) ==
    /\ message' = [type |-> type, text |-> text]
    /\ timers' = timers + 1

navigateTo(section, reportId) ==
    /\ activeSection' = section
    /\ currentReportId' = reportId

\* Unmounting the report view drops its state (the next mount starts from the
\* useState initial values); responses still in flight belong to no view.
Unmount(requests) ==
    /\ reportData' = <<>>
    /\ isLoading' = TRUE
    /\ searchTerm' = <<>>
    /\ activeFilters' = <<>>
    /\ rendered' = <<>>
    /\ seqFilters' = <<>>
    /\ inflight' = [i \in DOMAIN requests |-> [requests[i] EXCEPT !.live = FALSE]]

\* The fetch effect body: setIsLoading(true) and one request for reportId.
fetchReport(reportId) ==
    /\ isLoading' = TRUE
    /\ inflight' = Append(inflight, [id |-> reportId, live |-> TRUE])

\* The component re-renders after a state update: its handlers close over the
\* new activeFilters.
Flush == rendered' = activeFilters'

Init ==
    /\ activeSection = "upload"
    /\ currentReportId = NoId
    /\ message = NoMessage
    /\ timers = 0
    /\ reportData = <<>>
    /\ isLoading = TRUE
    /\ searchTerm = <<>>
    /\ activeFilters = <<>>
    /\ rendered = <<>>
    /\ inflight = <<>>
    /\ lastOp = Op("init", "", "")
    /\ seqFilters = <<>>
    /\ fn = FnIdle

\* A sidebar item is clicked: navigateTo(item.id).
SidebarNavigate(item) ==
    /\ navigateTo(item, NoId)
    /\ Unmount(inflight)
    /\ lastOp' = Op("navigateTo", item, "")
    /\ UNCHANGED <<message, timers, fn>>

\* The upload form is submitted with no file selected.
UploadSubmitNoFile ==
    /\ activeSection = "upload"
    /\ timers < MaxTimers
    /\ showAlert("error", "select-file")
    /\ lastOp' = Op("showAlert", "error", "")
    /\ UNCHANGED <<activeSection, currentReportId, fn>>
    /\ UNCHANGED viewVars

\* A Completed entry of the history list is clicked; the report view mounts
\* and its fetch effect runs.
OpenReport(id) ==
    /\ activeSection = "history"
    /\ Len(inflight) < MaxInflight
    /\ navigateTo("reportDetail", id)
    /\ fetchReport(id)
    /\ lastOp' = Op("navigateTo", "reportDetail", "")
    /\ UNCHANGED <<message, timers, reportData, searchTerm, activeFilters,
                   rendered, seqFilters, fn>>

\* "Back to History" in the report view.
BackToHistory ==
    /\ ViewShown
    /\ navigateTo("history", NoId)
    /\ Unmount(inflight)
    /\ lastOp' = Op("navigateTo", "history", "")
    /\ UNCHANGED <<message, timers, fn>>

\* The response of request i arrives with response.ok.
FetchReportOk(i) ==
    /\ i \in DOMAIN inflight
    /\ inflight' = RemoveAt(inflight, i)
    /\ IF inflight[i].live
       THEN /\ reportData' = <<[data |-> ServerReport(inflight[i].id)]>>
            /\ isLoading' = FALSE
            /\ lastOp' = Op("setReportData", "", "")
       ELSE /\ UNCHANGED <<reportData, isLoading>>
            /\ lastOp' = Op("staleResponse", "", "")
    /\ UNCHANGED <<searchTerm, activeFilters, seqFilters, fn>>
    /\ Flush
    /\ UNCHANGED appVars

\* The response of request i is an error, or the request fails.
FetchReportFail(i) ==
    /\ i \in DOMAIN inflight
    /\ timers < MaxTimers
    /\ showAlert("error", "load-failed")
    /\ navigateTo("history", NoId)
    /\ Unmount(RemoveAt(inflight, i))
    /\ lastOp' = Op("fetchFailed", "", "")
    /\ UNCHANGED fn

\* A showAlert timeout runs: App re-renders with new showAlert and navigateTo
\* functions, so a mounted report view runs its fetch effect again.
AlertTimeout ==
    /\ timers > 0
    /\ timers' = timers - 1
    /\ message' = NoMessage
    /\ lastOp' = Op("alertTimeout", "", "")
    /\ IF Mounted
       THEN /\ Len(inflight) < MaxInflight
            /\ fetchReport(currentReportId)
            /\ UNCHANGED <<reportData, searchTerm, activeFilters, rendered, seqFilters>>
       ELSE UNCHANGED viewVars
    /\ UNCHANGED <<activeSection, currentReportId, fn>>

\* ------------------------------------------------- report view: user events
\* The handlers; each is followed by a re-render or left pending, see below.
AddFilterHandler(type, value) ==
    /\ ViewShown
    /\ Len(rendered) < MaxFilters
    /\ activeFilters' = addFilter(rendered, activeFilters, type, value)
    /\ seqFilters' = addFilter(seqFilters, seqFilters, type, value)
    /\ lastOp' = Op("addFilter", type, value)
    /\ UNCHANGED <<reportData, isLoading, searchTerm, inflight, fn>>
    /\ UNCHANGED appVars

\* The segment of the ownership pie labelled name is clicked.
PieClickHandler(name) ==
    AddFilterHandler("ownership_category", name)

\* The bar of the nation chart labelled name is clicked.
BarClickHandler(name) ==
    AddFilterHandler("nation", name)

\* The labels of the chart segments and bars, from the summary.
PieLabels == {e.name : e \in Range(summary.categoryData)}
BarLabels == {e.name : e \in Range(summary.nationData)}

\* The delete icon of the k-th chip is clicked.
ChipDeleteHandler(k) ==
    /\ ViewShown
    /\ k \in DOMAIN rendered
    /\ activeFilters' = removeFilter(rendered, rendered[k])
    /\ seqFilters' = removeFilter(seqFilters, rendered[k])
    /\ lastOp' = Op("removeFilter", rendered[k].type, rendered[k].value)
    /\ UNCHANGED <<reportData, isLoading, searchTerm, inflight, fn>>
    /\ UNCHANGED appVars

\* "Reset Filters", shown while the rendered filter list is not empty.
ResetFiltersHandler ==
    /\ ViewShown
    /\ Len(rendered) > 0
    /\ activeFilters' = <<>>
    /\ seqFilters' = <<>>
    /\ lastOp' = Op("resetFilters", "", "")
    /\ UNCHANGED <<reportData, isLoading, searchTerm, inflight, fn>>
    /\ UNCHANGED appVars

\* The search box changes to term.
SearchChangeHandler(term) ==
    /\ ViewShown
    /\ term # searchTerm
    /\ searchTerm' = term
    /\ lastOp' = Op("setSearchTerm", "", "")
    /\ UNCHANGED <<reportData, isLoading, activeFilters, seqFilters, inflight, fn>>
    /\ UNCHANGED appVars

\* User events one at a time: the view re-renders before the next event.
PieClick(name) == PieClickHandler(name) /\ Flush
BarClick(name) == BarClickHandler(name) /\ Flush
ChipDelete(k) == ChipDeleteHandler(k) /\ Flush
ResetFilters == ResetFiltersHandler /\ Flush
SearchChange(term) == SearchChangeHandler(term) /\ Flush

Shell ==
    \/ \E item \in NavItems : SidebarNavigate(item)
    \/ UploadSubmitNoFile
    \/ \E id \in ReportIds : OpenReport(id)
    \/ BackToHistory
    \/ \E i \in DOMAIN inflight : FetchReportOk(i)
    \/ \E i \in DOMAIN inflight : FetchReportFail(i)
    \/ AlertTimeout

Next ==
    \/ Shell
    \/ \E name \in PieLabels : PieClick(name)
    \/ \E name \in BarLabels : BarClick(name)
    \/ \E k \in DOMAIN rendered : ChipDelete(k)
    \/ ResetFilters
    \/ \E term \in SearchTerms : SearchChange(term)

Spec == Init /\ [][Next]_vars

\* ------------------------------------------ one view session on any report
LoadedViewRest ==
    /\ isLoading = FALSE
    /\ searchTerm = <<>>
    /\ activeFilters = <<>>
    /\ rendered = <<>>
    /\ inflight = <<>>
    /\ lastOp = Op("setReportData", "", "")
    /\ seqFilters = <<>>
    /\ fn = FnIdle

\* The report view after its report has loaded, for every response body.
InitView ==
    /\ activeSection = "reportDetail"
    /\ currentReportId = 1
    /\ message = NoMessage
    /\ timers = 0
    /\ reportData \in {<<[data |-> r]>> : r \in ReportSet}
    /\ LoadedViewRest

NextView ==
    \/ \E name \in PieLabels : PieClick(name)
    \/ \E name \in BarLabels : BarClick(name)
    \/ \E k \in DOMAIN rendered : ChipDelete(k)
    \/ ResetFilters
    \/ \E term \in SearchTerms : SearchChange(term)

SpecView == InitView /\ [][NextView]_vars

\* ------------------------------- handlers that run before the next render
\* setActiveFilters only schedules the re-render: a handler that runs before
\* it still holds the activeFilters of the previous render.
PendingPieClick(name) == PieClickHandler(name) /\ UNCHANGED rendered
PendingBarClick(name) == BarClickHandler(name) /\ UNCHANGED rendered
PendingChipDelete(k) == ChipDeleteHandler(k) /\ UNCHANGED rendered
PendingResetFilters == ResetFiltersHandler /\ UNCHANGED rendered
PendingSearchChange(term) == SearchChangeHandler(term) /\ UNCHANGED rendered

\* The scheduled re-render: the component function runs again.
Render ==
    /\ lastOp.op # "render"
    /\ rendered' = activeFilters
    /\ lastOp' = Op("render", "", "")
    /\ UNCHANGED <<reportData, isLoading, searchTerm, activeFilters, inflight,
                   seqFilters, fn>>
    /\ UNCHANGED appVars

NextBatched ==
    \/ \E name \in PieLabels : PendingPieClick(name)
    \/ \E name \in BarLabels : PendingBarClick(name)
    \/ \E k \in DOMAIN rendered : PendingChipDelete(k)
    \/ PendingResetFilters
    \/ \E term \in SearchTerms : PendingSearchChange(term)
    \/ Render

\* The report view after the server's report 1 has loaded.
InitBatched ==
    /\ activeSection = "reportDetail"
    /\ currentReportId = 1
    /\ message = NoMessage
    /\ timers = 0
    /\ reportData = <<[data |-> ServerReport(1)]>>
    /\ LoadedViewRest

SpecBatched == InitBatched /\ [][NextBatched]_vars

\* --------------------------------- the filter operations on drawn inputs
FilterUniverse ==
    { Filter("ownership_category", "Private"),
      Filter("ownership_category", "PE-Owned"),
      Filter("nation", "USA"),
      Filter("nation", "UK") }

\* Filter lists without a repeated pair.
FilterLists ==
    { s \in UNION { [1..n -> FilterUniverse] : n \in 0..MaxFilters } :
        \A i, j \in DOMAIN s : i # j => s[i] # s[j] }

\* fn.R the record collection, fn.F the filter list at the start, fn.f the
\* filter passed to the operations, fn.cur the filter list now, fn.shown the
\* records the list now selects, fn.before the records selected before the
\* last operation.
InitFn ==
    /\ activeSection = "reportDetail"
    /\ currentReportId = 1
    /\ message = NoMessage
    /\ timers = 0
    /\ reportData = <<>>
    /\ isLoading = TRUE
    /\ searchTerm = <<>>
    /\ activeFilters = <<>>
    /\ rendered = <<>>
    /\ inflight = <<>>
    /\ lastOp = Op("init", "", "")
    /\ seqFilters = <<>>
    /\ fn \in { [pc |-> "start", R |-> r, F |-> fs, f |-> f, cur |-> fs,
                 shown |-> applyFilters(r, fs), before |-> applyFilters(r, fs)] :
                r \in ReportSet, fs \in FilterLists, f \in FilterUniverse }

FnAddFilter ==
    /\ fn.pc = "start"
    /\ LET next == addFilter(fn.cur, fn.cur, fn.f.type, fn.f.value)
       IN  fn' = [fn EXCEPT !.pc = "added", !.cur = next,
                            !.before = fn.shown,
                            !.shown = applyFilters(fn.R, next)]
    /\ UNCHANGED appVars
    /\ UNCHANGED viewVars
    /\ UNCHANGED lastOp

FnRemoveFilter ==
    /\ fn.pc \in {"start", "added"}
    /\ LET next == removeFilter(fn.cur, fn.f)
       IN  fn' = [fn EXCEPT !.pc = IF fn.pc = "start" THEN "removed" ELSE "addedRemoved",
                            !.cur = next,
                            !.before = fn.shown,
                            !.shown = applyFilters(fn.R, next)]
    /\ UNCHANGED appVars
    /\ UNCHANGED viewVars
    /\ UNCHANGED lastOp

NextFn == FnAddFilter \/ FnRemoveFilter

SpecFn == InitFn /\ [][NextFn]_vars

\* ------------------------------------- the summary shown, on drawn inputs
\* Variant: the quotient is not multiplied by 100.
pePercentageUnscaled(s) ==
    IF s.total = 0
    THEN IF s.peRelatedCount = 0 THEN "NaN" ELSE "Infinity"
    ELSE ToString((2 * s.peRelatedCount + s.total) \div (2 * s.total))

\* ((summary.peRelatedCount / summary.total) * 100).toFixed(0) as the text
\* put in the page.  0 / 0 is NaN and NaN.toFixed(0) is "NaN"; a positive
\* quotient is printed as the nearest integer, a half going up.
pePercentage(s) ==
    IF s.total = 0
    THEN IF s.peRelatedCount = 0 THEN "NaN" ELSE "Infinity"
    ELSE ToString((200 * s.peRelatedCount + s.total) \div (2 * s.total))

\* The percentage in the Executive Summary of the rendered view.
pePercentageShown == pePercentage(summary)

\* nationData of the sortable report view: the ranking is sorted, not sliced.
nationDataSortable(companies) ==
    LET sorted == sortByCountDesc(nations(companies, Len(companies)))
    IN  [i \in DOMAIN sorted |-> [name |-> sorted[i].name, value |-> sorted[i].count]]

\* Five records with the categories PE-Owned, PE-Owned, Public (PE-Backed),
\* Private, Unknown; the last three carry no nation that is counted.
CategoryScenario ==
    << Company(<<"A">>, "PE-Owned", "USA"),
       Company(<<"B">>, "PE-Owned", "UK"),
       Company(<<"C">>, "Public (PE-Backed)", ""),
       Company(<<"a", "b">>, "Private", "Unknown"),
       Company(<<"b", "a">>, "Unknown", Undefined) >>

\* Two records named "Acme Corp" and "Other Co".
AcmeReport ==
    << Company(<<"A", "c", "m", "e", " ", "C", "o", "r", "p">>, "PE-Owned", "USA"),
       Company(<<"O", "t", "h", "e", "r", " ", "C", "o">>, "", "UK") >>

Acme == <<"a", "c", "m", "e">>

\* More nations than the ranking keeps: TopN + 1 records of nations N1, N2,
\* ..., then a second record of the last nation and a second of N3.
WideReport ==
    [i \in 1..(TopN + 3) |->
        Company([j \in 1..i |-> "a"], "Private",
                "N" \o ToString(IF i <= TopN + 1 THEN i
                                ELSE IF i = TopN + 2 THEN TopN + 1 ELSE 3))]

SummaryReports == ReportSet \cup {CategoryScenario, AcmeReport, WideReport}
SummaryTerms == SearchTerms \cup {Acme}

\* fn.R the record collection of the loaded report, fn.term the search term,
\* fn.F the active filters; then fn.summary and fn.shown the useMemo result,
\* fn.ranking the nation ranking of the sortable view, fn.percentage the
\* percentage text of the Executive Summary.
InitSummary ==
    /\ activeSection = "reportDetail"
    /\ currentReportId = 1
    /\ message = NoMessage
    /\ timers = 0
    /\ reportData = <<>>
    /\ isLoading = TRUE
    /\ searchTerm = <<>>
    /\ activeFilters = <<>>
    /\ rendered = <<>>
    /\ inflight = <<>>
    /\ lastOp = Op("init", "", "")
    /\ seqFilters = <<>>
    /\ fn \in { [pc |-> "input", R |-> r, term |-> t, F |-> fs] :
                r \in SummaryReports, t \in SummaryTerms, fs \in FilterLists }

\* The useMemo of the view runs on the loaded report.
FnDerive ==
    /\ fn.pc = "input"
    /\ LET d == derive(<<[data |-> fn.R]>>, fn.term, fn.F)
       IN  fn' = [pc |-> "derived", R |-> fn.R, term |-> fn.term, F |-> fn.F,
                  summary |-> d.summary, shown |-> d.filteredCompanies,
                  ranking |-> nationDataSortable(fn.R)]
    /\ UNCHANGED appVars
    /\ UNCHANGED viewVars
    /\ UNCHANGED lastOp

\* The Executive Summary is rendered from the summary.
FnRenderSummary ==
    /\ fn.pc = "derived"
    /\ fn' = [pc |-> "rendered", R |-> fn.R, term |-> fn.term, F |-> fn.F,
              summary |-> fn.summary, shown |-> fn.shown, ranking |-> fn.ranking,
              percentage |-> pePercentage(fn.summary)]
    /\ UNCHANGED appVars
    /\ UNCHANGED viewVars
    /\ UNCHANGED lastOp

NextSummary == FnDerive \/ FnRenderSummary

SpecSummary == InitSummary /\ [][NextSummary]_vars

\* ----------------------------------- owning firms of the sortable report view
\* A record as the peOwners reduce reads it.  pe_owner_names is <<>> when the
\* record carries none, else <<names>>.
OwnerRecord(pe, names) == [is_pe_owned |-> pe, pe_owner_names |-> names]

OwnerPool ==
    { OwnerRecord(TRUE, << <<"KKR">> >>),
      OwnerRecord(TRUE, << <<"KKR", "Bain">> >>),
      OwnerRecord(FALSE, << <<"Bain">> >>),
      OwnerRecord(TRUE, <<>>),
      OwnerRecord(FALSE, << <<>> >>) }

OwnerReports == UNION { [1..n -> OwnerPool] : n \in 0..MaxRecords }

\* c.pe_owner_names.forEach(owner => acc[owner] = (acc[owner] || 0) + 1),
\* over the first k names.
RECURSIVE forEachOwner(_, _, _)
forEachOwner(acc, names, k) ==
    IF k = 0 THEN acc
    ELSE Increment(forEachOwner(acc, names, k - 1), names[k])

\* companies.reduce over the first n records.
RECURSIVE peOwners(_, _)
peOwners(companies, n) ==
    IF n = 0 THEN <<>>
    ELSE IF companies[n].is_pe_owned /\ companies[n].pe_owner_names # <<>>
         THEN forEachOwner(peOwners(companies, n - 1),
                           companies[n].pe_owner_names[1],
                           Len(companies[n].pe_owner_names[1]))
         ELSE peOwners(companies, n - 1)

\* summary.peOwnerData, the data of the treemap.
peOwnerData(companies) ==
    LET owners == peOwners(companies, Len(companies))
    IN  [i \in DOMAIN owners |-> [name |-> owners[i].name, size |-> owners[i].count]]

InitOwners ==
    /\ activeSection = "reportDetail"
    /\ currentReportId = 1
    /\ message = NoMessage
    /\ timers = 0
    /\ reportData = <<>>
    /\ isLoading = TRUE
    /\ searchTerm = <<>>
    /\ activeFilters = <<>>
    /\ rendered = <<>>
    /\ inflight = <<>>
    /\ lastOp = Op("init", "", "")
    /\ seqFilters = <<>>
    /\ fn \in { [pc |-> "records", R |-> r] : r \in OwnerReports }

\* The summary useMemo of the sortable view runs on the loaded report.
FnPeOwners ==
    /\ fn.pc = "records"
    /\ fn' = [pc |-> "owners", R |-> fn.R, peOwnerData |-> peOwnerData(fn.R)]
    /\ UNCHANGED appVars
    /\ UNCHANGED viewVars
    /\ UNCHANGED lastOp

NextOwners == FnPeOwners

SpecOwners == InitOwners /\ [][NextOwners]_vars

\* --------------------------------------------------------- formatDuration
\* A value of analysis_duration_seconds: typeof, whether it is NaN, and, for
\* a number, its value in tenths of a second.
Seconds(type, nan, tenths) == [typeof |-> type, nan |-> nan, tenths |-> tenths]

DurationValues ==
    { Seconds("number", FALSE, t) : t \in 0..(10 * MaxSeconds) }
      \cup { Seconds("undefined", FALSE, 0), Seconds("number", TRUE, 0),
             Seconds("string", FALSE, 1250) }

\* Math.floor(seconds / 60)
Minutes(seconds) == seconds.tenths \div 600

\* Math.round(seconds % 60): the nearest integer, a half going up.
RemainingSeconds(seconds) == ((seconds.tenths % 600) + 5) \div 10

\* formatDuration of the filter view.
formatDuration(seconds) ==
    IF seconds.typeof # "number" \/ seconds.nan THEN "N/A"
    ELSE IF Minutes(seconds) > 0
         THEN "~" \o ToString(Minutes(seconds)) \o "m "
                  \o ToString(RemainingSeconds(seconds)) \o "s"
         ELSE ToString(RemainingSeconds(seconds)) \o "s"

\* formatDuration of the sortable view.
formatDurationSortable(seconds) ==
    IF seconds.typeof # "number" \/ seconds.nan THEN "N/A"
    ELSE IF Minutes(seconds) > 0
         THEN ToString(Minutes(seconds)) \o "m "
                  \o ToString(RemainingSeconds(seconds)) \o "s"
         ELSE ToString(RemainingSeconds(seconds)) \o "s"

InitDuration ==
    /\ activeSection = "reportDetail"
    /\ currentReportId = 1
    /\ message = NoMessage
    /\ timers = 0
    /\ reportData = <<>>
    /\ isLoading = TRUE
    /\ searchTerm = <<>>
    /\ activeFilters = <<>>
    /\ rendered = <<>>
    /\ inflight = <<>>
    /\ lastOp = Op("init", "", "")
    /\ seqFilters = <<>>
    /\ fn \in { [pc |-> "loaded", seconds |-> v] : v \in DurationValues }

\* The report views render formatDuration(reportData.analysis_duration_seconds).
FnFormatDuration ==
    /\ fn.pc = "loaded"
    /\ fn' = [pc |-> "formatted", seconds |-> fn.seconds,
              filterView |-> formatDuration(fn.seconds),
              sortableView |-> formatDurationSortable(fn.seconds)]
    /\ UNCHANGED appVars
    /\ UNCHANGED viewVars
    /\ UNCHANGED lastOp

NextDuration == FnFormatDuration

SpecDuration == InitDuration /\ [][NextDuration]_vars

\* ----------------------------------------- held fixed by the harnesses below
\* The App and report view variables while a single function or another
\* component is exercised through fn.
Parked ==
    /\ activeSection = "reportDetail"
    /\ currentReportId = 1
    /\ message = NoMessage
    /\ timers = 0
    /\ reportData = <<>>
    /\ isLoading = TRUE
    /\ searchTerm = <<>>
    /\ activeFilters = <<>>
    /\ rendered = <<>>
    /\ inflight = <<>>
    /\ lastOp = Op("init", "", "")
    /\ seqFilters = <<>>

StayParked == UNCHANGED <<appVars, viewVars, lastOp>>

\* ------------------------------ rendering the filter view of a loaded report
\* company_name of a record that carries none.
NoName == <<Undefined>>

\* Records with absent fields next to a complete one.
RenderPool ==
    { Company(<<"A", "b">>, "Private", "USA"),
      Company(NoName, "PE-Owned", "UK"),
      Company(<<"a">>, Undefined, Undefined) }

\* Response bodies: data is <<>> when the body has no data property, else
\* <<records>>.
RenderReports ==
    { [data |-> <<>>] }
      \cup { [data |-> <<r>>] :
               r \in UNION { [1..n -> RenderPool] : n \in 0..MaxRecords } }

\* c.company_name.toLowerCase() is reached for every record once the search
\* term is not empty; on a record without company_name it is a TypeError.
useMemoThrows(report, term) ==
    /\ report.data # <<>>
    /\ term # <<>>
    /\ \E c \in Range(report.data[1]) : c.company_name = NoName

\* One render of the loaded view (isLoading false, reportData an object): the
\* useMemo, then the JSX.  Without reportData.data the useMemo returns
\* { summary: {} } and summary.categoryData.map(...) in the JSX is a TypeError.
renderReportView(report, term, filters) ==
    IF report.data = <<>>
    THEN [threw |-> TRUE, line |-> 248,
          summary |-> EmptySummary, filteredCompanies |-> <<>>]
    ELSE IF useMemoThrows(report, term)
    THEN [threw |-> TRUE, line |-> 132,
          summary |-> EmptySummary, filteredCompanies |-> <<>>]
    ELSE LET d == derive(<<[data |-> report.data[1]]>>, term, filters)
         IN  [threw |-> FALSE, line |-> 0,
              summary |-> d.summary, filteredCompanies |-> d.filteredCompanies]

InitRender ==
    /\ Parked
    /\ fn \in { [pc |-> "loaded", report |-> r, term |-> t, F |-> fs] :
                r \in RenderReports, t \in SearchTerms, fs \in FilterLists }

\* The view renders with the loaded report and the ViewState.
FnRenderReportView ==
    /\ fn.pc = "loaded"
    /\ fn' = [pc |-> "rendered", report |-> fn.report, term |-> fn.term, F |-> fn.F,
              out |-> renderReportView(fn.report, fn.term, fn.F)]
    /\ StayParked

NextRender == FnRenderReportView

SpecRender == InitRender /\ [][NextRender]_vars

\* ------------------------------------ the Chart.js variant of the report view
ChartIds == <<"ownershipChart", "nationChart", "peOwnerChart">>

\* charts.current = {}: no chart id has an instance; 0 stands for no instance.
NoCharts == [c \in Range(ChartIds) |-> 0]

\* Response bodies of /report/{id}: without records or with the server's
\* records.
ChartBodies == { <<>>, ServerReport(1) }

\* Object.values(charts.current).forEach(chart => chart.destroy())
destroyAll(charts, instances) ==
    [k \in DOMAIN instances |->
        IF \E c \in DOMAIN charts : charts[c] = k
        THEN [instances[k] EXCEPT !.destroyed = @ + 1]
        ELSE instances[k]]

\* renderChart: destroy the instance kept under chartId, if any, and keep a
\* new one created on the canvas.  st is [charts, instances]; req names the
\* reportData the chart is drawn from.
renderChart(st, chartId, req) ==
    LET kept == IF st.charts[chartId] # 0
                THEN [st.instances EXCEPT ![st.charts[chartId]].destroyed = @ + 1]
                ELSE st.instances
        made == Append(kept, [chart |-> chartId, req |-> req, destroyed |-> 0])
    IN  [charts |-> [st.charts EXCEPT ![chartId] = Len(made)], instances |-> made]

\* Variant: the cleanup leaves the instances alone.
chartCleanupKeeps(st) == st

\* The cleanup returned by the chart effect.
chartCleanup(st) ==
    [charts |-> NoCharts, instances |-> destroyAll(st.charts, st.instances)]

\* The body of the chart effect for the committed reportData (<<>> for null).
chartEffect(st, data) ==
    IF data # <<>> /\ data[1].body # <<>>
    THEN renderChart(renderChart(renderChart(st, ChartIds[1], data[1].req),
                                 ChartIds[2], data[1].req),
                     ChartIds[3], data[1].req)
    ELSE [charts |-> NoCharts, instances |-> destroyAll(st.charts, st.instances)]

\* A commit in which reportData changed from the value the effect last saw:
\* the cleanup of the previous run, then the effect body.
chartCommit(st, data) == chartEffect(chartCleanup(st), data)

\* fn.mounted: the view is rendered by App; fn.reportData, fn.isLoading its
\* state; fn.charts the ref charts.current; fn.instances every Chart created,
\* with the number of destroy() calls it received; fn.requests the /report
\* requests in flight; fn.rerun: App has re-rendered, so the fetch effect of
\* the mounted view is due again; fn.timers the showAlert timeouts pending.
InitCharts ==
    /\ Parked
    /\ fn = [pc |-> "charts", mounted |-> FALSE, reportData |-> <<>>,
             isLoading |-> TRUE, charts |-> NoCharts, instances |-> <<>>,
             requests |-> <<>>, nextReq |-> 1, rerun |-> FALSE, timers |-> 0]

ChartState == [charts |-> fn.charts, instances |-> fn.instances]

\* The view mounts: the fetch effect issues a request, the chart effect runs
\* on reportData = null.
ChartsMount ==
    /\ fn.pc = "charts"
    /\ ~fn.mounted
    /\ Len(fn.requests) < MaxInflight
    /\ fn.nextReq <= MaxLoads
    /\ LET st == chartEffect(ChartState, <<>>)
       IN  fn' = [fn EXCEPT !.mounted = TRUE, !.reportData = <<>>, !.isLoading = TRUE,
                            !.charts = st.charts, !.instances = st.instances,
                            !.requests = Append(@, [req |-> fn.nextReq, live |-> TRUE]),
                            !.nextReq = @ + 1, !.rerun = FALSE]
    /\ StayParked

\* The response of request i arrives with response.ok and the given body:
\* setReportData, showAlert('success') and setIsLoading(false) are committed
\* together, then the chart effect runs on the new reportData.
ChartsResponseOk(i, body) ==
    /\ fn.pc = "charts"
    /\ i \in DOMAIN fn.requests
    /\ fn.timers < MaxTimers
    /\ IF fn.requests[i].live
       THEN LET data == <<[req |-> fn.requests[i].req, body |-> body]>>
                st == chartCommit(ChartState, data)
            IN  fn' = [fn EXCEPT !.reportData = data, !.isLoading = FALSE,
                                 !.charts = st.charts, !.instances = st.instances,
                                 !.requests = RemoveAt(@, i),
                                 !.timers = @ + 1, !.rerun = TRUE]
       ELSE fn' = [fn EXCEPT !.requests = RemoveAt(@, i), !.timers = @ + 1,
                             !.rerun = fn.mounted]
    /\ StayParked

\* The fetch effect runs again after an App re-render: setIsLoading(true),
\* setReportData(null), a new request; the commit that follows runs the chart
\* cleanup and the chart effect on null.
ChartsRefetch ==
    /\ fn.pc = "charts"
    /\ fn.mounted
    /\ fn.rerun
    /\ Len(fn.requests) < MaxInflight
    /\ fn.nextReq <= MaxLoads
    /\ LET st == IF fn.reportData # <<>> THEN chartCommit(ChartState, <<>>)
                 ELSE ChartState
       IN  fn' = [fn EXCEPT !.reportData = <<>>, !.isLoading = TRUE,
                            !.charts = st.charts, !.instances = st.instances,
                            !.requests = Append(@, [req |-> fn.nextReq, live |-> TRUE]),
                            !.nextReq = @ + 1, !.rerun = FALSE]
    /\ StayParked

\* A showAlert timeout runs and App re-renders.
ChartsAlertTimeout ==
    /\ fn.pc = "charts"
    /\ fn.timers > 0
    /\ fn' = [fn EXCEPT !.timers = @ - 1, !.rerun = fn.mounted]
    /\ StayParked

\* The view unmounts: its chart cleanup runs, its requests belong to no view.
chartsUnmount ==
    LET st == chartCleanup(ChartState)
    IN  [fn EXCEPT !.mounted = FALSE, !.reportData = <<>>, !.isLoading = TRUE,
                   !.charts = st.charts, !.instances = st.instances,
                   !.requests = [k \in DOMAIN @ |-> [@[k] EXCEPT !.live = FALSE]],
                   !.rerun = FALSE]

\* The user leaves the view (Back to History or a sidebar item).
ChartsLeave ==
    /\ fn.pc = "charts"
    /\ fn.mounted
    /\ fn' = chartsUnmount
    /\ StayParked

\* Request i fails: showAlert('error') and navigateTo('history').
ChartsResponseFail(i) ==
    /\ fn.pc = "charts"
    /\ i \in DOMAIN fn.requests
    /\ fn.timers < MaxTimers
    /\ fn' = [chartsUnmount EXCEPT !.requests = RemoveAt(@, i), !.timers = @ + 1]
    /\ StayParked

NextCharts ==
    \/ ChartsMount
    \/ \E i \in DOMAIN fn.requests, body \in ChartBodies : ChartsResponseOk(i, body)
    \/ ChartsRefetch
    \/ ChartsAlertTimeout
    \/ ChartsLeave
    \/ \E i \in DOMAIN fn.requests : ChartsResponseFail(i)

SpecCharts == InitCharts /\ [][NextCharts]_vars

\* ------------------------------------------------------- the history section
HistoryIds == 1..MaxEntries
Statuses == {"Pending", "Completed", "Failed"}
Deleted == "deleted"

\* The body of a /history response: the entries the server holds, by id.
RECURSIVE historyOf(_, _)
historyOf(server, n) ==
    IF n = 0 THEN <<>>
    ELSE IF server[n] = Deleted THEN historyOf(server, n - 1)
    ELSE Append(historyOf(server, n - 1), [id |-> n, status |-> server[n]])

\* Variant: the title of every entry opens the report.
entryOpensAlways(entry) == TRUE

\* entry.status === "Completed" in the onClick of the entry's title.
entryOpens(entry) == entry.status = "Completed"

NoEntry == [id |-> NoId, status |-> ""]

\* useState initial values of HistorySection.
HistoryMounted ==
    [history |-> <<>>, isLoading |-> TRUE, dialogOpen |-> FALSE,
     reportToDelete |-> NoEntry]

\* fn.server: the status of each report on the server; fn.view the state of
\* the mounted HistorySection; fn.polls and fn.deletes the /history and DELETE
\* requests in flight; fn.deleted the ids whose deletion the view was told
\* succeeded.
InitHistory ==
    /\ activeSection = "history"
    /\ currentReportId = NoId
    /\ message = NoMessage
    /\ timers = 0
    /\ reportData = <<>>
    /\ isLoading = TRUE
    /\ searchTerm = <<>>
    /\ activeFilters = <<>>
    /\ rendered = <<>>
    /\ inflight = <<>>
    /\ lastOp = Op("init", "", "")
    /\ seqFilters = <<>>
    /\ \E server \in [HistoryIds -> Statuses] :
         fn = [pc |-> "history", server |-> server, view |-> HistoryMounted,
               polls |-> <<[data |-> historyOf(server, MaxEntries), live |-> TRUE]>>,
               deletes |-> <<>>, deleted |-> {}]

HistoryShown == fn.pc = "history" /\ activeSection = "history"
OtherVarsParked == UNCHANGED <<viewVars>>

\* fetchHistory, called by the interval or by a re-run of the polling effect;
\* the server answers with what it holds now.
HistoryFetch ==
    /\ HistoryShown
    /\ Len(fn.polls) < MaxInflight
    /\ fn' = [fn EXCEPT !.polls = Append(@, [data |-> historyOf(fn.server, MaxEntries),
                                             live |-> TRUE])]
    /\ lastOp' = Op("fetchHistory", "", "")
    /\ UNCHANGED appVars
    /\ OtherVarsParked

\* The response of poll i arrives with response.ok: setHistory(data).
HistoryResponseOk(i) ==
    /\ fn.pc = "history"
    /\ i \in DOMAIN fn.polls
    /\ fn' = [fn EXCEPT !.polls = RemoveAt(@, i),
                        !.view = IF fn.polls[i].live
                                 THEN [@ EXCEPT !.history = fn.polls[i].data,
                                                !.isLoading = FALSE]
                                 ELSE @]
    /\ lastOp' = Op("historyLoaded", "", "")
    /\ UNCHANGED appVars
    /\ OtherVarsParked

\* The response of poll i arrives without response.ok: setHistory([]) and an
\* error alert.
HistoryResponseFail(i) ==
    /\ fn.pc = "history"
    /\ i \in DOMAIN fn.polls
    /\ timers < MaxTimers
    /\ fn' = [fn EXCEPT !.polls = RemoveAt(@, i),
                        !.view = IF fn.polls[i].live
                                 THEN [@ EXCEPT !.history = <<>>, !.isLoading = FALSE]
                                 ELSE @]
    /\ showAlert("error", "history-failed")
    /\ lastOp' = Op("showAlert", "error", "")
    /\ UNCHANGED <<activeSection, currentReportId>>
    /\ OtherVarsParked

\* The title of the k-th listed entry is clicked.
HistoryClickEntry(k) ==
    /\ HistoryShown
    /\ ~fn.view.dialogOpen
    /\ k \in DOMAIN fn.view.history
    /\ LET entry == fn.view.history[k]
       IN  /\ lastOp' = Op("clickEntry", entry.status, ToString(entry.id))
           /\ IF entryOpens(entry)
              THEN /\ navigateTo("reportDetail", entry.id)
                   /\ fn' = [fn EXCEPT !.view = HistoryMounted,
                                       !.polls = [j \in DOMAIN @ |->
                                                    [@[j] EXCEPT !.live = FALSE]]]
              ELSE UNCHANGED <<activeSection, currentReportId, fn>>
    /\ UNCHANGED <<message, timers>>
    /\ OtherVarsParked

\* The sidebar's History item is clicked while a report is shown: the section
\* mounts and its effect calls fetchHistory.
HistoryReturn ==
    /\ fn.pc = "history"
    /\ activeSection = "reportDetail"
    /\ Len(fn.polls) < MaxInflight
    /\ navigateTo("history", NoId)
    /\ fn' = [fn EXCEPT !.view = HistoryMounted,
                        !.polls = Append(@, [data |-> historyOf(fn.server, MaxEntries),
                                             live |-> TRUE])]
    /\ lastOp' = Op("navigateTo", "history", "")
    /\ UNCHANGED <<message, timers>>
    /\ OtherVarsParked

\* The delete icon of the k-th listed entry is clicked.
openDeleteDialog(k) ==
    /\ HistoryShown
    /\ ~fn.view.dialogOpen
    /\ k \in DOMAIN fn.view.history
    /\ fn' = [fn EXCEPT !.view.reportToDelete = fn.view.history[k],
                        !.view.dialogOpen = TRUE]
    /\ lastOp' = Op("openDeleteDialog", "", "")
    /\ UNCHANGED appVars
    /\ OtherVarsParked

\* The dialog is dismissed.
handleCloseDialog ==
    /\ HistoryShown
    /\ fn.view.dialogOpen
    /\ fn.deletes = <<>>
    /\ fn' = [fn EXCEPT !.view.reportToDelete = NoEntry, !.view.dialogOpen = FALSE]
    /\ lastOp' = Op("handleCloseDialog", "", "")
    /\ UNCHANGED appVars
    /\ OtherVarsParked

\* The dialog is confirmed: DELETE /report/{id}; the server removes the report
\* it holds and answers ok, or answers with an error for one it does not hold.
handleConfirmDelete ==
    /\ HistoryShown
    /\ fn.view.dialogOpen
    /\ fn.view.reportToDelete # NoEntry
    /\ Len(fn.deletes) < MaxInflight
    /\ LET id == fn.view.reportToDelete.id
       IN  fn' = [fn EXCEPT !.server[id] = Deleted,
                            !.deletes = Append(@, [id |-> id,
                                                   ok |-> fn.server[id] # Deleted])]
    /\ lastOp' = Op("handleConfirmDelete", "", "")
    /\ UNCHANGED appVars
    /\ OtherVarsParked

\* The response of DELETE i arrives: an alert, on success
\* setHistory(prev => prev.filter(item => item.id !== reportToDelete.id)),
\* and the dialog closes.
HistoryDeleteResponse(i) ==
    /\ fn.pc = "history"
    /\ activeSection = "history"
    /\ i \in DOMAIN fn.deletes
    /\ timers < MaxTimers
    /\ LET d == fn.deletes[i]
       IN  /\ fn' = [fn EXCEPT !.deletes = RemoveAt(@, i),
                               !.deleted = IF d.ok THEN @ \cup {d.id} ELSE @,
                               !.view = [@ EXCEPT
                                   !.history = IF d.ok
                                               THEN SelectSeq(@, LAMBDA item : item.id # d.id)
                                               ELSE @,
                                   !.reportToDelete = NoEntry,
                                   !.dialogOpen = FALSE]]
           /\ showAlert(IF d.ok THEN "success" ELSE "error", "delete")
    /\ lastOp' = Op("showAlert", "delete", "")
    /\ UNCHANGED <<activeSection, currentReportId>>
    /\ OtherVarsParked

\* A showAlert timeout runs.
HistoryAlertTimeout ==
    /\ fn.pc = "history"
    /\ timers > 0
    /\ message' = NoMessage
    /\ timers' = timers - 1
    /\ lastOp' = Op("alertTimeout", "", "")
    /\ UNCHANGED <<activeSection, currentReportId, fn>>
    /\ OtherVarsParked

NextHistory ==
    \/ HistoryFetch
    \/ \E i \in DOMAIN fn.polls : HistoryResponseOk(i)
    \/ \E i \in DOMAIN fn.polls : HistoryResponseFail(i)
    \/ \E k \in DOMAIN fn.view.history : HistoryClickEntry(k)
    \/ HistoryReturn
    \/ \E k \in DOMAIN fn.view.history : openDeleteDialog(k)
    \/ handleCloseDialog
    \/ handleConfirmDelete
    \/ \E i \in DOMAIN fn.deletes : HistoryDeleteResponse(i)
    \/ HistoryAlertTimeout

SpecHistory == InitHistory /\ [][NextHistory]_vars

\* ------------------------------------------------------ the settings section
GeminiKeys == {"", "sk-1"}
FirmLines == {"KKR", " KKR ", ""}

\* The text of the firms textarea, as its lines: a string has at least one.
PeTexts == UNION { [1..n -> FirmLines] : n \in 1..MaxLines }

\* line.trim()
trim(line) == IF line = " KKR " THEN "KKR" ELSE line

\* (data.pe_firms || []).join('\n')
joinLines(firms) == IF firms = <<>> THEN <<"">> ELSE firms

\* peFirms.split('\n').map(line => line.trim()).filter(Boolean)
splitFirms(text) ==
    SelectSeq([k \in DOMAIN text |-> trim(text[k])], LAMBDA line : line # "")

ServerSettings ==
    { [gemini_api_key |-> k, pe_firms |-> f] :
        k \in GeminiKeys, f \in {<<>>, <<"KKR">>} }

NoSettings == <<>>

\* The settings object built from a /settings response.
settingsOf(data) ==
    [gemini_api_key |-> data.gemini_api_key, pe_firms |-> joinLines(data.pe_firms)]

\* fn.server: the settings the server holds; fn.geminiApiKey, fn.peFirms,
\* fn.isLoading, fn.isSaving, fn.initialSettings the state of SettingsSection
\* (initialSettings is <<>> for null, else <<settings>>); fn.fetches and
\* fn.saves the GET and POST /settings requests in flight; fn.rerun: App has
\* re-rendered, so the effect with deps [showAlert] is due again.
InitSettings ==
    /\ activeSection = "settings"
    /\ currentReportId = NoId
    /\ message = NoMessage
    /\ timers = 0
    /\ reportData = <<>>
    /\ isLoading = TRUE
    /\ searchTerm = <<>>
    /\ activeFilters = <<>>
    /\ rendered = <<>>
    /\ inflight = <<>>
    /\ lastOp = Op("init", "", "")
    /\ seqFilters = <<>>
    /\ \E server \in ServerSettings :
         fn = [pc |-> "settings", server |-> server,
               geminiApiKey |-> "", peFirms |-> <<"">>,
               isLoading |-> TRUE, isSaving |-> FALSE,
               initialSettings |-> NoSettings,
               fetches |-> <<[data |-> server]>>, saves |-> <<>>,
               rerun |-> FALSE]

\* hasChanges: the fields differ from initialSettings.
hasChanges ==
    /\ fn.initialSettings # NoSettings
    /\ \/ fn.geminiApiKey # fn.initialSettings[1].gemini_api_key
       \/ fn.peFirms # fn.initialSettings[1].pe_firms

\* The effect with deps [showAlert] runs again: fetchSettings sets isLoading
\* and requests /settings; the server answers with what it holds now.
SettingsRefetch ==
    /\ fn.pc = "settings"
    /\ fn.rerun
    /\ Len(fn.fetches) < MaxInflight
    /\ fn' = [fn EXCEPT !.rerun = FALSE, !.isLoading = TRUE,
                        !.fetches = Append(@, [data |-> fn.server])]
    /\ lastOp' = Op("fetchSettings", "", "")
    /\ UNCHANGED appVars
    /\ OtherVarsParked

\* The response of GET i arrives with response.ok.
SettingsFetchOk(i) ==
    /\ fn.pc = "settings"
    /\ i \in DOMAIN fn.fetches
    /\ LET settings == settingsOf(fn.fetches[i].data)
       IN  fn' = [fn EXCEPT !.fetches = RemoveAt(@, i),
                            !.geminiApiKey = settings.gemini_api_key,
                            !.peFirms = settings.pe_firms,
                            !.initialSettings = <<settings>>,
                            !.isLoading = FALSE]
    /\ lastOp' = Op("settingsLoaded", "", "")
    /\ UNCHANGED appVars
    /\ OtherVarsParked

\* The response of GET i arrives without response.ok, or the request fails.
SettingsFetchFail(i) ==
    /\ fn.pc = "settings"
    /\ i \in DOMAIN fn.fetches
    /\ timers < MaxTimers
    /\ fn' = [fn EXCEPT !.fetches = RemoveAt(@, i), !.isLoading = FALSE,
                        !.rerun = TRUE]
    /\ showAlert("error", "settings-failed")
    /\ lastOp' = Op("showAlert", "error", "")
    /\ UNCHANGED <<activeSection, currentReportId>>
    /\ OtherVarsParked

\* The user types in the API-key field.
SettingsKeyInput(value) ==
    /\ fn.pc = "settings"
    /\ ~fn.isLoading
    /\ value # fn.geminiApiKey
    /\ fn' = [fn EXCEPT !.geminiApiKey = value]
    /\ lastOp' = Op("input", "geminiApiKey", "")
    /\ UNCHANGED appVars
    /\ OtherVarsParked

\* The user types in the firms textarea.
SettingsFirmsInput(value) ==
    /\ fn.pc = "settings"
    /\ ~fn.isLoading
    /\ value # fn.peFirms
    /\ fn' = [fn EXCEPT !.peFirms = value]
    /\ lastOp' = Op("input", "peFirms", "")
    /\ UNCHANGED appVars
    /\ OtherVarsParked

\* "Save Changes": setIsSaving(true), the 'Saving settings...' alert and the
\* POST, which the server stores.
handleSubmit ==
    /\ fn.pc = "settings"
    /\ ~fn.isLoading
    /\ hasChanges
    /\ ~fn.isSaving
    /\ timers < MaxTimers
    /\ Len(fn.saves) < MaxInflight
    /\ LET body == [gemini_api_key |-> fn.geminiApiKey,
                    pe_firms |-> splitFirms(fn.peFirms)]
       IN  fn' = [fn EXCEPT !.isSaving = TRUE, !.rerun = TRUE, !.server = body,
                            !.saves = Append(@, [gemini_api_key |-> fn.geminiApiKey,
                                                 pe_firms |-> fn.peFirms])]
    /\ showAlert("info", "Saving settings...")
    /\ lastOp' = Op("showAlert", "info", "")
    /\ UNCHANGED <<activeSection, currentReportId>>
    /\ OtherVarsParked

\* The response of POST i arrives: an alert, on success setInitialSettings
\* with the field values handleSubmit closed over, and setIsSaving(false).
SettingsSaveResponse(i, ok) ==
    /\ fn.pc = "settings"
    /\ i \in DOMAIN fn.saves
    /\ timers < MaxTimers
    /\ fn' = [fn EXCEPT !.saves = RemoveAt(@, i), !.isSaving = FALSE,
                        !.rerun = TRUE,
                        !.initialSettings = IF ok THEN <<fn.saves[i]>> ELSE @]
    /\ showAlert(IF ok THEN "success" ELSE "error", "save")
    /\ lastOp' = Op("showAlert", "save", "")
    /\ UNCHANGED <<activeSection, currentReportId>>
    /\ OtherVarsParked

\* A showAlert timeout runs and App re-renders.
SettingsAlertTimeout ==
    /\ fn.pc = "settings"
    /\ timers > 0
    /\ message' = NoMessage
    /\ timers' = timers - 1
    /\ fn' = [fn EXCEPT !.rerun = TRUE]
    /\ lastOp' = Op("alertTimeout", "", "")
    /\ UNCHANGED <<activeSection, currentReportId>>
    /\ OtherVarsParked

NextSettings ==
    \/ SettingsRefetch
    \/ \E i \in DOMAIN fn.fetches : SettingsFetchOk(i)
    \/ \E i \in DOMAIN fn.fetches : SettingsFetchFail(i)
    \/ \E value \in GeminiKeys : SettingsKeyInput(value)
    \/ \E value \in PeTexts : SettingsFirmsInput(value)
    \/ handleSubmit
    \/ \E i \in DOMAIN fn.saves, ok \in BOOLEAN : SettingsSaveResponse(i, ok)
    \/ SettingsAlertTimeout

SpecSettings == InitSettings /\ [][NextSettings]_vars

\* ------------------------------------------------------------ App alerts
\* duration = 5000 ms, the default every caller uses, in clock ticks of 2.5 s.
AlertDuration == 2
AlertTypes == {"info", "success", "error"}

\* fn.now: the clock; fn.shownAt: when the displayed message was set;
\* fn.timeouts: the pending setTimeout callbacks, each with the alert that
\* registered it and the time it is due; fn.alerts: alerts shown so far.
InitAlerts ==
    /\ activeSection = "upload"
    /\ currentReportId = NoId
    /\ message = NoMessage
    /\ timers = 0
    /\ reportData = <<>>
    /\ isLoading = TRUE
    /\ searchTerm = <<>>
    /\ activeFilters = <<>>
    /\ rendered = <<>>
    /\ inflight = <<>>
    /\ lastOp = Op("init", "", "")
    /\ seqFilters = <<>>
    /\ fn = [pc |-> "alerts", now |-> 0, shownAt |-> 0, timeouts |-> {}, alerts |-> 0]

\* showAlert(type, text): setMessage and a timeout that is never cancelled.
AlertShow(type) ==
    /\ fn.pc = "alerts"
    /\ fn.alerts < MaxAlerts
    /\ showAlert(type, "alert " \o ToString(fn.alerts + 1))
    /\ fn' = [fn EXCEPT !.alerts = @ + 1, !.shownAt = fn.now,
                        !.timeouts = @ \cup {[alert |-> fn.alerts + 1,
                                              due |-> fn.now + AlertDuration]}]
    /\ lastOp' = Op("showAlert", type, ToString(fn.alerts + 1))
    /\ UNCHANGED <<activeSection, currentReportId>>
    /\ OtherVarsParked

\* The timeout t is due: its callback runs setMessage({type: '', text: ''}).
AlertExpire(t) ==
    /\ fn.pc = "alerts"
    /\ t \in fn.timeouts
    /\ t.due <= fn.now
    /\ message' = NoMessage
    /\ timers' = timers - 1
    /\ fn' = [fn EXCEPT !.timeouts = @ \ {t}]
    /\ lastOp' = Op("alertTimeout", "", ToString(t.alert))
    /\ UNCHANGED <<activeSection, currentReportId>>
    /\ OtherVarsParked

\* Time passes; a callback that is due runs before the clock moves on.
AlertTick ==
    /\ fn.pc = "alerts"
    /\ fn.now < MaxTime
    /\ \A t \in fn.timeouts : t.due > fn.now
    /\ fn' = [fn EXCEPT !.now = @ + 1]
    /\ lastOp' = Op("tick", "", "")
    /\ UNCHANGED appVars
    /\ OtherVarsParked

NextAlerts ==
    \/ \E type \in AlertTypes : AlertShow(type)
    \/ \E t \in fn.timeouts : AlertExpire(t)
    \/ AlertTick

SpecAlerts == InitAlerts /\ [][NextAlerts]_vars

\* -------------------------------------------- the sortable report view
\* UTF-16 code unit of a character of the pool's names.
CharCode(c) ==
    CASE c = "A" -> 65 [] c = "B" -> 66 [] c = "C" -> 67 [] c = "O" -> 79
      [] c = "a" -> 97 [] c = "b" -> 98 [] c = "c" -> 99 [] c = "o" -> 111

\* s < t on strings: by code units, a proper prefix first.
RECURSIVE StringLess(_, _)
StringLess(s, t) ==
    IF t = <<>> THEN FALSE
    ELSE IF s = <<>> THEN TRUE
    ELSE IF CharCode(Head(s)) # CharCode(Head(t))
         THEN CharCode(Head(s)) < CharCode(Head(t))
         ELSE StringLess(Tail(s), Tail(t))

Throws == "ReferenceError"

\* The comparator of the sort effect with the initial sortConfig
\* {key: 'company_name', direction: 'ascending'}: its first branch reads
\* sort_config, which is not defined.
compareCompanies(a, b) ==
    IF StringLess(a.company_name, b.company_name) THEN Throws
    ELSE IF StringLess(b.company_name, a.company_name) THEN "after"
    ELSE "same"

\* The order of the arguments in which Array.prototype.sort calls the
\* comparator is left to the engine: the element being placed first, or the
\* element already placed first.
CallOrders == {"placedSecond", "placedFirst"}

\* One comparison of the element x being placed with the placed element y:
\* "before", "notBefore" or Throws.
comparePlacing(x, y, order) ==
    IF order = "placedSecond"
    THEN LET c == compareCompanies(x, y)
         IN  IF c = Throws THEN Throws ELSE "notBefore"
    ELSE LET c == compareCompanies(y, x)
         IN  IF c = Throws THEN Throws
             ELSE IF c = "after" THEN "before" ELSE "notBefore"

\* Insertion of x into the sorted list, comparing from position j downwards.
RECURSIVE insertSorted(_, _, _, _)
insertSorted(sorted, x, j, order) ==
    IF j = 0 THEN [threw |-> FALSE, items |-> <<x>> \o sorted]
    ELSE LET c == comparePlacing(x, sorted[j], order)
         IN  IF c = Throws THEN [threw |-> TRUE, items |-> <<>>]
             ELSE IF c = "before" THEN insertSorted(sorted, x, j - 1, order)
             ELSE [threw |-> FALSE,
                   items |-> SubSeq(sorted, 1, j) \o <<x>> \o SubSeq(sorted, j + 1, Len(sorted))]

\* sortableItems.sort(comparator) over the first n items.
RECURSIVE sortItems(_, _, _)
sortItems(items, n, order) ==
    IF n = 0 THEN [threw |-> FALSE, items |-> <<>>]
    ELSE LET rest == sortItems(items, n - 1, order)
         IN  IF rest.threw THEN rest
             ELSE insertSorted(rest.items, items[n], n - 1, order)

\* The sort effect: filter by the search term, sort, setFilteredCompanies; an
\* error thrown by the comparator leaves the effect before the setter.
sortEffect(data, term, order) ==
    LET sortableItems == searchFilter(data, term)
        sorted == sortItems(sortableItems, Len(sortableItems), order)
    IN  [threw |-> sorted.threw, filteredCompanies |-> sorted.items]

InitSort ==
    /\ Parked
    /\ fn \in {[pc |-> "sortable", data |-> r, term |-> t] :
                  r \in ReportSet, t \in SearchTerms}

\* The effect runs after reportData or searchTerm changed.
FnSortEffect(order) ==
    /\ fn.pc = "sortable"
    /\ fn' = [pc |-> "sorted", data |-> fn.data, term |-> fn.term,
              out |-> sortEffect(fn.data, fn.term, order)]
    /\ StayParked

NextSort == \E order \in CallOrders : FnSortEffect(order)

SpecSort == InitSort /\ [][NextSort]_vars

\* ------------------------------------------- App navigation with PE insights
NoFirm == ""
InsightFirms == {"KKR"}

\* Variant: navigateTo drops the report id.
navigateToDropsReport(section, reportId, peFirm) ==
    [section |-> section, reportId |-> NoId, peFirm |-> peFirm]

\* navigateTo(section, reportId = null, peFirm = null): the three values the
\* setters receive.
navigateToTarget(section, reportId, peFirm) ==
    [section |-> section, reportId |-> reportId, peFirm |-> peFirm]

\* App renders a view that fetches /report/{id} for this state.
RendersDataView(section, reportId, peFirm) ==
    \/ section = "reportDetail" /\ reportId # NoId
    \/ section = "peInsights" /\ peFirm # NoFirm

\* fn.currentPEFirm: App's third state; fn.requests: the /report requests in
\* flight, each with the view that issued it, the reportId and peFirmName its
\* closure holds, and whether that view is still mounted; fn.loaded: the
\* mounted view shows its data; fn.rerun: App has re-rendered, so the fetch
\* effect of the mounted view is due again; fn.uploading: an upload awaits its
\* response.
InitApp ==
    /\ activeSection = "upload"
    /\ currentReportId = NoId
    /\ message = NoMessage
    /\ timers = 0
    /\ reportData = <<>>
    /\ isLoading = TRUE
    /\ searchTerm = <<>>
    /\ activeFilters = <<>>
    /\ rendered = <<>>
    /\ inflight = <<>>
    /\ lastOp = Op("init", "", "")
    /\ seqFilters = <<>>
    /\ fn = [pc |-> "app", currentPEFirm |-> NoFirm, requests |-> <<>>,
             loaded |-> FALSE, rerun |-> FALSE, uploading |-> FALSE]

AppDataViewShown == RendersDataView(activeSection, currentReportId, fn.currentPEFirm)

\* The request the fetch effect of the view rendered for this state issues.
RequestOf(section, reportId, peFirm) ==
    [view |-> section, reportId |-> reportId, peFirm |-> peFirm, live |-> TRUE]

\* The three setters run with target t, base being fn with the handler's
\* other effects applied: if the App state changes, the rendered view is replaced, the requests of
\* the old one belong to no view and the new one, if it fetches, issues its
\* own; alerted says that showAlert ran in the same handler.
AppNavigate(t, base, alerted) ==
    LET changed == <<t.section, t.reportId, t.peFirm>> #
                     <<activeSection, currentReportId, fn.currentPEFirm>>
        dead == [k \in DOMAIN base.requests |->
                    [base.requests[k] EXCEPT !.live = FALSE]]
        next == IF ~changed THEN base.requests
                ELSE IF RendersDataView(t.section, t.reportId, t.peFirm)
                THEN Append(dead, RequestOf(t.section, t.reportId, t.peFirm))
                ELSE dead
    IN  /\ Len(next) <= MaxInflight
        /\ activeSection' = t.section
        /\ currentReportId' = t.reportId
        /\ fn' = [base EXCEPT !.currentPEFirm = t.peFirm,
                            !.requests = next,
                            !.loaded = IF changed THEN FALSE ELSE @,
                            !.rerun = IF changed THEN FALSE
                                      ELSE (@ \/ (alerted /\ AppDataViewShown))]

\* A sidebar item is clicked: navigateTo(item.id).
AppSidebar(item) ==
    /\ fn.pc = "app"
    /\ AppNavigate(navigateToTarget(item, NoId, NoFirm), fn, FALSE)
    /\ lastOp' = Op("sidebar", item, "")
    /\ UNCHANGED <<message, timers>>
    /\ OtherVarsParked

\* A Completed entry of the history is clicked.
AppOpenReport(id) ==
    /\ fn.pc = "app"
    /\ activeSection = "history"
    /\ AppNavigate(navigateToTarget("reportDetail", id, NoFirm), fn, FALSE)
    /\ lastOp' = Op("openReport", "", "")
    /\ UNCHANGED <<message, timers>>
    /\ OtherVarsParked

\* "Back to History" in the report view.
AppBackToHistory ==
    /\ fn.pc = "app"
    /\ activeSection = "reportDetail"
    /\ AppDataViewShown
    /\ AppNavigate(navigateToTarget("history", NoId, NoFirm), fn, FALSE)
    /\ lastOp' = Op("backToHistory", "", "")
    /\ UNCHANGED <<message, timers>>
    /\ OtherVarsParked

\* The card of a PE firm in the loaded report view is clicked:
\* navigateTo('peInsights', reportId, peFirm.name).
AppOpenInsights(firm) ==
    /\ fn.pc = "app"
    /\ activeSection = "reportDetail"
    /\ AppDataViewShown
    /\ fn.loaded
    /\ AppNavigate(navigateToTarget("peInsights", currentReportId, firm),
                   fn, FALSE)
    /\ lastOp' = Op("openInsights", "", "")
    /\ UNCHANGED <<message, timers>>
    /\ OtherVarsParked

\* handleBackToReport in the insights view.
handleBackToReport ==
    /\ fn.pc = "app"
    /\ activeSection = "peInsights"
    /\ AppDataViewShown
    /\ AppNavigate(navigateToTarget("reportDetail", currentReportId, NoFirm),
                   fn, FALSE)
    /\ lastOp' = Op("backToReport", "", "")
    /\ UNCHANGED <<message, timers>>
    /\ OtherVarsParked

\* Request i is answered with response.ok; found: the report holds insights
\* for the firm of an insights request.  A success alert, or for a firm that
\* is not found an error alert and navigateTo('reportDetail', reportId).
AppResponseOk(i, found) ==
    /\ fn.pc = "app"
    /\ i \in DOMAIN fn.requests
    /\ timers < MaxTimers
    /\ LET r == fn.requests[i]
           rest == RemoveAt(fn.requests, i)
       IN  IF r.view = "peInsights" /\ ~found
           THEN /\ showAlert("error", "firm-not-found")
                /\ AppNavigate(navigateToTarget("reportDetail", r.reportId, NoFirm),
                               [fn EXCEPT !.requests = rest], TRUE)
           ELSE /\ showAlert("success", "loaded")
                /\ fn' = [fn EXCEPT !.requests = rest,
                                    !.loaded = @ \/ r.live,
                                    !.rerun = @ \/ AppDataViewShown]
                /\ UNCHANGED <<activeSection, currentReportId>>
    /\ lastOp' = Op("response", "", "")
    /\ OtherVarsParked

\* Request i fails: an error alert and navigateTo('history').
AppResponseFail(i) ==
    /\ fn.pc = "app"
    /\ i \in DOMAIN fn.requests
    /\ timers < MaxTimers
    /\ showAlert("error", "load-failed")
    /\ AppNavigate(navigateToTarget("history", NoId, NoFirm),
                   [fn EXCEPT !.requests = RemoveAt(@, i)], TRUE)
    /\ lastOp' = Op("fetchFailed", "", "")
    /\ OtherVarsParked

\* The fetch effect of the mounted view runs again after an App re-render.
AppRefetch ==
    /\ fn.pc = "app"
    /\ fn.rerun
    /\ AppDataViewShown
    /\ Len(fn.requests) < MaxInflight
    /\ fn' = [fn EXCEPT !.rerun = FALSE, !.loaded = FALSE,
                        !.requests = Append(@, RequestOf(activeSection, currentReportId,
                                                         fn.currentPEFirm))]
    /\ lastOp' = Op("refetch", "", "")
    /\ UNCHANGED appVars
    /\ OtherVarsParked

\* The upload form is submitted with a file.
AppUploadSubmit ==
    /\ fn.pc = "app"
    /\ activeSection = "upload"
    /\ ~fn.uploading
    /\ timers < MaxTimers
    /\ showAlert("info", "uploading")
    /\ fn' = [fn EXCEPT !.uploading = TRUE]
    /\ lastOp' = Op("upload", "", "")
    /\ UNCHANGED <<activeSection, currentReportId>>
    /\ OtherVarsParked

\* The upload is answered: on success an alert and navigateTo('history').
AppUploadResponse(ok) ==
    /\ fn.pc = "app"
    /\ fn.uploading
    /\ timers < MaxTimers
    /\ showAlert(IF ok THEN "success" ELSE "error", "upload")
    /\ IF ok
       THEN AppNavigate(navigateToTarget("history", NoId, NoFirm),
                        [fn EXCEPT !.uploading = FALSE], TRUE)
       ELSE /\ fn' = [fn EXCEPT !.uploading = FALSE, !.rerun = @ \/ AppDataViewShown]
            /\ UNCHANGED <<activeSection, currentReportId>>
    /\ lastOp' = Op("uploadResponse", "", "")
    /\ OtherVarsParked

\* A showAlert timeout runs and App re-renders.
AppAlertTimeout ==
    /\ fn.pc = "app"
    /\ timers > 0
    /\ message' = NoMessage
    /\ timers' = timers - 1
    /\ fn' = [fn EXCEPT !.rerun = @ \/ AppDataViewShown]
    /\ lastOp' = Op("alertTimeout", "", "")
    /\ UNCHANGED <<activeSection, currentReportId>>
    /\ OtherVarsParked

NextApp ==
    \/ \E item \in NavItems : AppSidebar(item)
    \/ \E id \in ReportIds : AppOpenReport(id)
    \/ AppBackToHistory
    \/ \E firm \in InsightFirms : AppOpenInsights(firm)
    \/ handleBackToReport
    \/ \E i \in DOMAIN fn.requests, found \in BOOLEAN : AppResponseOk(i, found)
    \/ \E i \in DOMAIN fn.requests : AppResponseFail(i)
    \/ AppRefetch
    \/ AppUploadSubmit
    \/ \E ok \in BOOLEAN : AppUploadResponse(ok)
    \/ AppAlertTimeout

SpecApp == InitApp /\ [][NextApp]_vars

\* ============================================================== properties
SameLetter(a, b) ==
    \/ a = b
    \/ {a, b} \in {{"A", "a"}, {"B", "b"}, {"C", "c"}, {"O", "o"}}

\* term occurs in name, letter case aside.
MatchesTerm(name, term) ==
    \/ term = <<>>
    \/ \E i \in 0..(Len(name) - Len(term)) :
          \A j \in 1..Len(term) : SameLetter(name[i + j], term[j])

Satisfies(c, filters) ==
    \A k \in DOMAIN filters : c[filters[k].type] = filters[k].value

CategoryLabel(c) ==
    IF c.ownership_category \in {Undefined, ""} THEN "Unknown" ELSE c.ownership_category

NoDuplicateFilters(fs) == \A i, j \in DOMAIN fs : i # j => fs[i] # fs[j]

PermutationsOf(s) ==
    { [i \in DOMAIN s |-> s[p[i]]] :
        p \in { q \in [DOMAIN s -> DOMAIN s] :
                  \A i, j \in DOMAIN s : i # j => q[i] # q[j] } }

Usa == Filter("nation", "USA")
Private == Filter("ownership_category", "Private")

\* C1: the visible records are exactly the records of the report that match
\* the search term and satisfy every active filter, in source order, and
\* filtering before searching gives the same list as searching before filtering.
VisibleRecordsExact ==
    ViewShown =>
        LET data == reportData[1].data
        IN  /\ filteredCompanies =
                 SelectSeq(data, LAMBDA c : MatchesTerm(c.company_name, searchTerm)
                                             /\ Satisfies(c, activeFilters))
            /\ searchFilter(applyFilters(data, activeFilters), searchTerm)
                 = filteredCompanies

\* C1 witness: a search term and a filter are active and each narrows the list.
VisibleRecordsExactWitness ==
    /\ ViewShown
    /\ searchTerm # <<>>
    /\ activeFilters # <<>>
    /\ filteredCompanies # <<>>
    /\ Len(filteredCompanies) < Len(searchFilter(reportData[1].data, searchTerm))
    /\ Len(filteredCompanies) < Len(applyFilters(reportData[1].data, activeFilters))

\* C2: whatever filters and search term are active, the summary is the one of
\* the unfiltered record collection: total is its size, each category count
\* and nation count is the number of its records with that label, and
\* peRelatedCount counts its PE-Owned and Public (PE-Backed) records.
SummaryFromUnfiltered ==
    ViewShown =>
        LET data == reportData[1].data
        IN  /\ summary.total = Len(data)
            /\ summary = derive(reportData, <<>>, <<>>).summary
            /\ {e.name : e \in Range(summary.categoryData)}
                 = {CategoryLabel(data[i]) : i \in DOMAIN data}
            /\ \A e \in Range(summary.categoryData) :
                 e.value = Cardinality({i \in DOMAIN data : CategoryLabel(data[i]) = e.name})
            /\ \A e \in Range(summary.nationData) :
                 e.count = Cardinality({i \in DOMAIN data : data[i].nation = e.name})
            /\ summary.peRelatedCount =
                 Cardinality({i \in DOMAIN data :
                    CategoryLabel(data[i]) \in {"PE-Owned", "Public (PE-Backed)"}})

\* C2 witness: filters and a search term hide some records of a report.
SummaryFromUnfilteredWitness ==
    /\ ViewShown
    /\ activeFilters # <<>>
    /\ searchTerm # <<>>
    /\ lastOp.op \in {"addFilter", "removeFilter", "setSearchTerm"}
    /\ Len(filteredCompanies) < summary.total
    /\ summary.peRelatedCount > 0

\* C3: filtering the already filtered records by a further filter f selects
\* the same records as applying the list extended by f to the whole
\* collection, and every order of the filter list selects the same records.
IncrementalApply ==
    fn.pc = "added" =>
        /\ fn.shown = applyFilters(fn.before, <<fn.f>>)
        /\ \A fs \in PermutationsOf(fn.cur) : applyFilters(fn.R, fs) = fn.shown

\* C3 witness: a new filter was added to a non-empty list and narrowed the
\* selection without emptying it.
IncrementalApplyWitness ==
    /\ fn.pc = "added"
    /\ fn.F # <<>>
    /\ fn.f \notin Range(fn.F)
    /\ Len(fn.cur) = Len(fn.F) + 1
    /\ fn.shown # <<>>
    /\ Len(fn.shown) < Len(fn.before)
    /\ Len(fn.before) < Len(fn.R)

\* C4: the active filter list never holds a (type, value) pair twice; an
\* addFilter of a pair in the list leaves the list as it is, and an addFilter
\* of a new pair appends it after the entries already there.
AddFilterAppendsOnce ==
    /\ [](NoDuplicateFilters(activeFilters))
    /\ [][lastOp'.op = "addFilter" =>
            LET f == Filter(lastOp'.type, lastOp'.value)
            IN  IF f \in Range(activeFilters)
                THEN activeFilters' = activeFilters
                ELSE activeFilters' = Append(activeFilters, f)]_vars

\* C4 witness: a second, different pair was appended behind the first.
AddFilterAppendsOnceWitness ==
    /\ ViewShown
    /\ lastOp.op = "addFilter"
    /\ Len(activeFilters) = 2
    /\ activeFilters[2] = Filter(lastOp.type, lastOp.value)

\* C5 as claimed: after addFilter(f) and then removeFilter(f) the selected
\* records are those of the original list F, whether or not F held f.
AddRemoveRestores ==
    fn.pc = "addedRemoved" => fn.shown = applyFilters(fn.R, fn.F)

\* C5 amended: after addFilter(f) and then removeFilter(f) the list is F
\* without f and the selected records are those satisfying F without f; when
\* F did not hold f that is F itself and the original selection.
AddRemoveLeavesFWithoutF ==
    fn.pc = "addedRemoved" =>
        LET rest == SelectSeq(fn.F, LAMBDA g : g # fn.f)
        IN  /\ fn.cur = rest
            /\ fn.shown = SelectSeq(fn.R, LAMBDA c : Satisfies(c, rest))
            /\ fn.f \notin Range(fn.F) =>
                 /\ fn.cur = fn.F
                 /\ fn.shown = SelectSeq(fn.R, LAMBDA c : Satisfies(c, fn.F))

\* C5 witness: f was new, adding it narrowed the selection and removing it
\* widened the selection again.
AddRemoveWitness ==
    /\ fn.pc = "addedRemoved"
    /\ fn.F # <<>>
    /\ fn.f \notin Range(fn.F)
    /\ fn.before # <<>>
    /\ Len(fn.before) < Len(fn.shown)

\* C6: removeFilter(f) takes out the one entry equal to f in type and value
\* and keeps the others in their order; with no such entry the list is as it was.
RemoveExactEntry ==
    fn.pc = "removed" =>
        IF fn.f \in Range(fn.F)
        THEN \E k \in DOMAIN fn.F : fn.F[k] = fn.f /\ fn.cur = RemoveAt(fn.F, k)
        ELSE fn.cur = fn.F

\* C6 witness: f was removed from in front of another filter of the same type.
RemoveExactEntryWitness ==
    /\ fn.pc = "removed"
    /\ Len(fn.F) = 2
    /\ fn.F[1] = fn.f
    /\ fn.F[2].type = fn.f.type
    /\ fn.cur = <<fn.F[2]>>

\* C7: with no search term, clicking the Private segment while USA is the
\* only filter shows exactly the USA Private records; deleting the USA chip
\* then shows exactly the Private records, deleting the Private chip instead
\* shows exactly the USA records.
UsaPrivateScenario ==
    [][(ViewShown /\ searchTerm = <<>>) =>
        LET data == reportData[1].data
        IN  /\ (activeFilters = <<>> /\ lastOp' = Op("addFilter", "nation", "USA"))
                 => activeFilters' = <<Usa>>
            /\ (activeFilters = <<Usa>>
                  /\ lastOp' = Op("addFilter", "ownership_category", "Private"))
                 => /\ activeFilters' = <<Usa, Private>>
                    /\ filteredCompanies' =
                         SelectSeq(data, LAMBDA c : c.nation = "USA"
                                        /\ c.ownership_category = "Private")
            /\ (activeFilters = <<Usa, Private>>
                  /\ lastOp' = Op("removeFilter", "nation", "USA"))
                 => filteredCompanies' =
                         SelectSeq(data, LAMBDA c : c.ownership_category = "Private")
            /\ (activeFilters = <<Usa, Private>>
                  /\ lastOp' = Op("removeFilter", "ownership_category", "Private"))
                 => filteredCompanies' =
                         SelectSeq(data, LAMBDA c : c.nation = "USA")]_vars

\* C7 witness: the USA chip was deleted, Private is left, and the report has
\* Private records in and outside the USA and a USA record that is not Private.
UsaPrivateScenarioWitness ==
    /\ ViewShown
    /\ searchTerm = <<>>
    /\ lastOp = Op("removeFilter", "nation", "USA")
    /\ activeFilters = <<Private>>
    /\ Len(filteredCompanies) = 2
    /\ \E c \in Range(filteredCompanies) : c.nation = "USA"
    /\ \E c \in Range(reportData[1].data) :
          c.nation = "USA" /\ c.ownership_category # "Private"

ViewStateResetOnLoad ==
    lastOp.op = "setReportData" => (searchTerm = <<>> /\ activeFilters = <<>>)

\* C10 as claimed: once the report is shown, and while the view stays mounted
\* on the same report id, no request is issued and isLoading stays false.
ReportLoadedOnce ==
    [][(ViewShown /\ activeSection' = "reportDetail"
                  /\ currentReportId' = currentReportId)
         => (~isLoading' /\ Len(inflight') <= Len(inflight))]_vars

\* ------------------------------------------------ the summary (C11 - C19)
Derived == fn.pc \in {"derived", "rendered"}

NationExcluded(c) == c.nation \in {Undefined, "", "Unknown"}

RECURSIVE SumOf(_)
SumOf(s) == IF s = <<>> THEN 0 ELSE Head(s) + SumOf(Tail(s))

\* The position at which the nation label is first met in the records.
FirstIndex(R, label) ==
    CHOOSE i \in DOMAIN R :
        R[i].nation = label /\ \A k \in 1..(i - 1) : R[k].nation # label

CategoryCountsSumToTotal ==
    Derived =>
        LET cd == fn.summary.categoryData
        IN  /\ SumOf([i \in DOMAIN cd |-> cd[i].value]) = fn.summary.total
            /\ fn.summary.total = Len(fn.R)
            /\ \A i, j \in DOMAIN cd : i # j => cd[i].name # cd[j].name
            /\ {e.name : e \in Range(cd)} = {CategoryLabel(c) : c \in Range(fn.R)}
            /\ \A e \in Range(cd) :
                 e.value = Cardinality({i \in DOMAIN fn.R : CategoryLabel(fn.R[i]) = e.name})

\* C12 witness: a record without a category is counted under "Unknown" next
\* to two other labels.
CategoryCountsSumToTotalWitness ==
    /\ Derived
    /\ \E c \in Range(fn.R) : c.ownership_category = Undefined
    /\ \E e \in Range(fn.summary.categoryData) : e.name = "Unknown" /\ e.value = 1
    /\ Len(fn.summary.categoryData) = 3
    /\ fn.summary.total = 3

\* C13: peRelatedCount is the PE-Owned count plus the Public (PE-Backed)
\* count of the category breakdown of all records, no other label adding to
\* it; it lies between 0 and total and does not depend on the search term or
\* the filters.
PeRelatedCountFixedLabels ==
    Derived =>
        LET cd == fn.summary.categoryData
            pe == SelectSeq(cd, LAMBDA e : e.name \in {"PE-Owned", "Public (PE-Backed)"})
        IN  /\ fn.summary.peRelatedCount = SumOf([i \in DOMAIN pe |-> pe[i].value])
            /\ fn.summary.peRelatedCount =
                 Cardinality({i \in DOMAIN fn.R : fn.R[i].ownership_category
                                \in {"PE-Owned", "Public (PE-Backed)"}})
            /\ 0 <= fn.summary.peRelatedCount
            /\ fn.summary.peRelatedCount <= fn.summary.total
            /\ fn.summary.peRelatedCount
                 = derive(<<[data |-> fn.R]>>, <<>>, <<>>).summary.peRelatedCount

\* C13 witness: both labels and a third one occur, and a search term and a
\* filter hide a PE-related record.
PeRelatedCountFixedLabelsWitness ==
    /\ Derived
    /\ fn.term # <<>>
    /\ fn.F # <<>>
    /\ {"PE-Owned", "Public (PE-Backed)", "Private"}
          \subseteq {e.name : e \in Range(fn.summary.categoryData)}
    /\ fn.summary.peRelatedCount = 2
    /\ Len(fn.shown) = 1
    /\ fn.shown[1].ownership_category = "Private"

\* C14 as claimed: the report of the five categories has peRelatedCount 2
\* and the percentage 40.
CategoryScenarioAsClaimed ==
    (fn.pc = "rendered" /\ fn.R = CategoryScenario) =>
        (fn.summary.peRelatedCount = 2 /\ fn.percentage = "40")

\* C14 amended: the report of the five categories has peRelatedCount 3 (the
\* two PE-Owned records and the Public (PE-Backed) record) and the
\* percentage 60.
CategoryScenarioCounts ==
    (fn.pc = "rendered" /\ fn.R = CategoryScenario) =>
        /\ fn.summary.total = 5
        /\ fn.summary.peRelatedCount = 3
        /\ fn.percentage = "60"

\* C14 witness: the summary of that report was rendered.
CategoryScenarioWitness ==
    /\ fn.pc = "rendered"
    /\ fn.R = CategoryScenario
    /\ [name |-> "PE-Owned", value |-> 2] \in Range(fn.summary.categoryData)
    /\ [name |-> "Public (PE-Backed)", value |-> 1] \in Range(fn.summary.categoryData)

\* round(100 * part / total): the integer nearest to the quotient, the larger
\* of two equally near; 0 when total is 0.
ExpectedPercentage(part, total) ==
    IF total > 0
    THEN LET near == {q \in 0..100 :
                        \A r \in 0..100 :
                            2 * (IF 100 * part >= q * total THEN 100 * part - q * total
                                 ELSE q * total - 100 * part)
                         <= 2 * (IF 100 * part >= r * total THEN 100 * part - r * total
                                 ELSE r * total - 100 * part)}
         IN  CHOOSE q \in near : \A r \in near : r <= q
    ELSE 0

\* C15 as claimed: the percentage shown is round(100 * peRelatedCount / total)
\* when total > 0 and 0 when total = 0, never a not-a-number value.
PercentageGuarded ==
    ViewShown =>
        /\ pePercentageShown # "NaN"
        /\ pePercentageShown
             = ToString(ExpectedPercentage(summary.peRelatedCount, summary.total))

\* C16 as claimed: no view shows more than TopN entries of the nation
\* ranking, and the first n entries of the ranking are at most n and are the
\* first n of its first n + 1 entries.
RankingAtMostTopN ==
    Derived =>
        LET sorted == sortByCountDesc(nations(fn.R, Len(fn.R)))
        IN  /\ Len(fn.summary.nationData) <= TopN
            /\ Len(fn.ranking) <= TopN
            /\ \A n \in 0..(TopN + 1) :
                 /\ Len(sliceTo(sorted, n)) <= n
                 /\ sliceTo(sorted, n) = sliceTo(sliceTo(sorted, n + 1), n)

\* C17: the nation ranking is in non-increasing order of count, and labels of
\* equal count are in the order in which the record collection first has them.
RankingSortedStable ==
    Derived =>
        /\ \A i, j \in DOMAIN fn.summary.nationData :
             i < j =>
                LET a == fn.summary.nationData[i]
                    b == fn.summary.nationData[j]
                IN  /\ a.count >= b.count
                    /\ a.count = b.count
                         => FirstIndex(fn.R, a.name) < FirstIndex(fn.R, b.name)
        /\ \A i, j \in DOMAIN fn.ranking :
             i < j =>
                LET a == fn.ranking[i]
                    b == fn.ranking[j]
                IN  /\ a.value >= b.value
                    /\ a.value = b.value
                         => FirstIndex(fn.R, a.name) < FirstIndex(fn.R, b.name)

\* C17 witness: N3 and N11, met third and eleventh, have two records each and
\* lead the ranking in that order; N1, N2 and N4 follow in the order met.
RankingSortedStableWitness ==
    /\ Derived
    /\ fn.R = WideReport
    /\ [i \in 1..5 |-> fn.summary.nationData[i].name]
          = <<"N3", "N11", "N1", "N2", "N4">>
    /\ fn.summary.nationData[2].count = 2
    /\ fn.summary.nationData[3].count = 1

\* C19: with an empty search term every record that passes the filters is
\* visible; otherwise a record is visible iff it passes the filters and its
\* name holds the term, letter case aside.  The term "acme" over the records
\* "Acme Corp" and "Other Co" shows "Acme Corp" only, and the summary is the
\* one of both records.
SearchPredicate ==
    Derived =>
        /\ fn.term = <<>> => fn.shown = SelectSeq(fn.R, LAMBDA c : Satisfies(c, fn.F))
        /\ fn.shown = SelectSeq(fn.R, LAMBDA c : MatchesTerm(c.company_name, fn.term)
                                                  /\ Satisfies(c, fn.F))
        /\ (fn.R = AcmeReport /\ fn.term = Acme /\ fn.F = <<>>) =>
             /\ fn.shown = <<AcmeReport[1]>>
             /\ fn.summary = summaryData(AcmeReport)
             /\ fn.summary.total = 2

\* C19 witness: "acme" was searched in the report of "Acme Corp" and
\* "Other Co" with no filter active.
SearchPredicateWitness ==
    /\ Derived
    /\ fn.R = AcmeReport
    /\ fn.term = Acme
    /\ fn.F = <<>>
    /\ Len(fn.shown) = 1
    /\ fn.summary.total = 2

\* ---------------------------------------------- owning firms (C18)
Firms == {"KKR", "Bain"}

\* C18 as claimed: the count of a firm is the number of records whose owner
\* list names it, whatever the other fields of those records are.
OwnerCountsFanOut ==
    fn.pc = "owners" =>
        /\ \A f \in Firms :
             LET listing == {i \in DOMAIN fn.R :
                               /\ fn.R[i].pe_owner_names # <<>>
                               /\ f \in Range(fn.R[i].pe_owner_names[1])}
                 entries == {e \in Range(fn.peOwnerData) : e.name = f}
             IN  IF listing = {} THEN entries = {}
                 ELSE entries = {[name |-> f, size |-> Cardinality(listing)]}
        /\ \A e \in Range(fn.peOwnerData) : e.name \in Firms

\* ------------------------------------------------------- duration (C20)
\* "{m}m {s}s" when the whole minutes m are positive, else "{s}s", s the
\* seconds left, rounded; "N/A" for a value that is no number.
ExpectedDuration(seconds) ==
    IF seconds.typeof # "number" \/ seconds.nan THEN "N/A"
    ELSE LET m == CHOOSE k \in 0..MaxSeconds :
                     600 * k <= seconds.tenths /\ seconds.tenths < 600 * (k + 1)
             left == seconds.tenths - 600 * m
             sec == CHOOSE k \in 0..60 : 10 * k - 5 <= left /\ left < 10 * k + 5
         IN  IF m > 0 THEN ToString(m) \o "m " \o ToString(sec) \o "s"
             ELSE ToString(sec) \o "s"

\* C20 as claimed: every report view prints the duration as "{m}m {s}s" or
\* "{s}s", and "N/A" for an absent or non-numeric value; 125 is printed as
\* "2m 5s", 45 as "45s", undefined as "N/A".
DurationFormat ==
    fn.pc = "formatted" =>
        /\ fn.filterView = ExpectedDuration(fn.seconds)
        /\ fn.sortableView = ExpectedDuration(fn.seconds)
        /\ fn.seconds = Seconds("number", FALSE, 1250) =>
             (fn.filterView = "2m 5s" /\ fn.sortableView = "2m 5s")
        /\ fn.seconds = Seconds("number", FALSE, 450) =>
             (fn.filterView = "45s" /\ fn.sortableView = "45s")
        /\ fn.seconds = Seconds("undefined", FALSE, 0) =>
             (fn.filterView = "N/A" /\ fn.sortableView = "N/A")

\* ------------------------------------------------------ rendering (C21)
\* C21 as claimed: rendering the view of a loaded report raises no error,
\* whatever fields its records lack, whether or not it has a record
\* collection, and whatever the search term and the filters are.
RenderNeverThrows ==
    fn.pc = "rendered" => ~fn.out.threw

\* ------------------------------------------------- chart instances (C22)
LiveInstances == {k \in DOMAIN fn.instances : fn.instances[k].destroyed = 0}

\* C22: in the Chart.js view at most one instance of each chart id is live,
\* no instance is destroyed twice, a live instance is the one kept in
\* charts.current and is drawn from the reportData now in the state, and none
\* is live once the view is unmounted or its reportData is null.
ChartsOwnedByView ==
    fn.pc = "charts" =>
        /\ \A c \in Range(ChartIds) :
             Cardinality({k \in LiveInstances : fn.instances[k].chart = c}) <= 1
        /\ \A k \in DOMAIN fn.instances : fn.instances[k].destroyed <= 1
        /\ \A k \in LiveInstances :
             /\ fn.charts[fn.instances[k].chart] = k
             /\ fn.mounted
             /\ fn.reportData # <<>>
             /\ fn.instances[k].req = fn.reportData[1].req
        /\ \A c \in Range(ChartIds) :
             fn.charts[c] # 0 => fn.charts[c] \in LiveInstances

\* C22 witness: the charts of a first report were destroyed and the three
\* charts of a second one are live.
ChartsOwnedByViewWitness ==
    /\ fn.pc = "charts"
    /\ fn.mounted
    /\ Len(fn.instances) >= 6
    /\ Cardinality(LiveInstances) = 3
    /\ \A k \in 1..3 : fn.instances[k].destroyed = 1

\* ------------------------------------------------ history entries (C23, C25)
\* C23: a click on the title of a history entry changes the section to the
\* report detail (with the entry's id) only if the entry's status is
\* "Completed"; for any other status activeSection and currentReportId stay
\* as they were.
OnlyCompletedOpens ==
    [][(fn.pc = "history" /\ lastOp'.op = "clickEntry") =>
         IF lastOp'.type = "Completed"
         THEN activeSection' = "reportDetail" /\ currentReportId' # NoId
         ELSE UNCHANGED <<activeSection, currentReportId>>]_vars

\* C23 witness: an entry that is not Completed was clicked and the history
\* section is still shown.
OnlyCompletedOpensWitness ==
    /\ fn.pc = "history"
    /\ lastOp.op = "clickEntry"
    /\ lastOp.type = "Pending"
    /\ activeSection = "history"
    /\ currentReportId = NoId

\* C25 as claimed: a report whose deletion succeeded is not in the displayed
\* history, however the responses of earlier polls arrive.
DeletedNeverShown ==
    HistoryShown =>
        \A k \in DOMAIN fn.view.history : fn.view.history[k].id \notin fn.deleted

\* ------------------------------------------- category segment click (C24)
RECURSIVE SumOfValues(_)
SumOfValues(S) ==
    IF S = {} THEN 0
    ELSE LET e == CHOOSE x \in S : TRUE IN e.value + SumOfValues(S \ {e})

\* The count the category chart shows for label.
SegmentCount(label) ==
    SumOfValues({e \in Range(summary.categoryData) : e.name = label})

\* C24 as claimed: with no search term and no filter, a click on the segment
\* of the category chart labelled L leaves as many visible records as the
\* count the chart shows for L.
SegmentClickShowsItsCount ==
    [][(/\ lastOp'.op = "addFilter"
        /\ lastOp'.type = "ownership_category"
        /\ searchTerm = <<>>
        /\ rendered = <<>>
        /\ activeFilters = <<>>)
       => Len(filteredCompanies') = SegmentCount(lastOp'.value)]_vars

\* --------------------------------------------------- settings fields (C26)
\* C26 as claimed: once the settings have loaded and while no save is under
\* way, the API-key and firms fields change only in a step where the user
\* types: no response of a re-fetch replaces edits that were not saved.
UnsavedEditsKept ==
    [][(/\ fn.pc = "settings"
        /\ fn.initialSettings # NoSettings
        /\ fn.saves = <<>>
        /\ ~fn.isSaving
        /\ hasChanges
        /\ <<fn.geminiApiKey, fn.peFirms>>' # <<fn.geminiApiKey, fn.peFirms>>)
       => lastOp'.op = "input"]_vars

\* ------------------------------------------------------ alert expiry (C27)
\* C27 as claimed: a displayed alert is removed only by a newer alert or
\* once its own duration has passed: in a step that clears the message, the
\* message has been displayed for AlertDuration.
AlertKeptForDuration ==
    [][(fn.pc = "alerts" /\ message # NoMessage /\ message' = NoMessage)
       => fn.now >= fn.shownAt + AlertDuration]_vars

\* ------------------------------------------- failure after leaving (C28)
\* C28 as claimed: when a report request fails after the user has left the
\* report view for another section, the active section stays as it is.
LateFailureKeepsSection ==
    [][(lastOp'.op = "fetchFailed" /\ activeSection # "reportDetail")
       => activeSection' = activeSection]_vars

\* ----------------------------------------------------- sorted list (C29)
\* C29 as claimed: for a report with at least two records, recomputing the
\* visible list of the sortable view raises no error and gives the records
\* that match the search term in non-decreasing order of company_name.
SortedListComputed ==
    (fn.pc = "sorted" /\ Len(fn.data) >= 2) =>
        /\ ~fn.out.threw
        /\ Len(fn.out.filteredCompanies) = Len(searchFilter(fn.data, fn.term))
        /\ Range(fn.out.filteredCompanies) = Range(searchFilter(fn.data, fn.term))
        /\ \A i \in 1..(Len(fn.out.filteredCompanies) - 1) :
             ~StringLess(fn.out.filteredCompanies[i + 1].company_name,
                         fn.out.filteredCompanies[i].company_name)

\* ------------------------------------------------ navigation targets (C30)
NavTargetsPresent ==
    fn.pc = "app" =>
        /\ activeSection = "reportDetail" => currentReportId # NoId
        /\ activeSection = "peInsights" =>
             currentReportId # NoId /\ fn.currentPEFirm # NoFirm

SidebarClears ==
    (fn.pc = "app" /\ lastOp'.op = "sidebar") =>
        currentReportId' = NoId /\ fn'.currentPEFirm = NoFirm

\* C30: whenever the active section is reportDetail, currentReportId is set,
\* and whenever it is peInsights, currentReportId and currentPEFirm are both
\* set; a click on a sidebar item leaves both cleared.
ActiveSectionHasItsView == []NavTargetsPresent /\ [][SidebarClears]_vars

\* C30 witness: the insights of a firm are shown for a report.
ActiveSectionHasItsViewWitness ==
    /\ fn.pc = "app"
    /\ activeSection = "peInsights"
    /\ currentReportId # NoId
    /\ fn.currentPEFirm \in InsightFirms
    /\ fn.loaded

====
